---- MODULE Spec2Model ----
(***************************************************************************)
(* A model of the sled-backed IndraDB datastore: the key codec, the trees  *)
(* of the SledHolder, the managers that own them and the operations of     *)
(* SledTransaction.  Keys and values are byte strings (sequences of        *)
(* 0..255) built as util::build builds them, trees are ordered maps from   *)
(* key to value, and every operation of the transaction is one action.     *)
(***************************************************************************)
EXTENDS Integers, Sequences, FiniteSets, TLC

(***************************************************************************)
(* Bounds of the model.                                                    *)
(***************************************************************************)
\* bytes of an encoded Uuid in the model (16 in the program; the codec below
\* is written for any fixed width)
UuidLen == 2
\* most vertex properties and edge properties held at once
MaxVertexProps == 2
MaxEdgeProps == 1

\* bytes of the digest that Component::Json writes into a key (a u64)
JsonLen == 8

(***************************************************************************)
(* Values.  An Identifier is a string of bytes.                            *)
(***************************************************************************)
Uuids == {1, 2}
\* vertex labels "p" and "q", edge label "k", property names "aa" and "b"
TypeP == <<112>>
TypeQ == <<113>>
TypeK == <<107>>
NameAA == <<97, 97>>
NameB == <<98>>
PropNames == {NameAA, NameB}
\* JSON values: the numbers 30 and 31
JsonValues == {30, 31}

Edge(o, t, i) == [outbound_id |-> o, t |-> t, inbound_id |-> i]
Vertex(id, t) == [id |-> id, t |-> t]
AllEdges == {Edge(o, TypeK, i) : o \in Uuids, i \in Uuids}

None == <<>>
Some(x) == <<x>>

(***************************************************************************)
(* The codec (indradb::util): components and build.                        *)
(***************************************************************************)
RECURSIVE Pow(_, _)
Pow(b, n) == IF n = 0 THEN 1 ELSE b * Pow(b, n - 1)

\* util::Component::Uuid: the id in big-endian bytes, fixed width
UuidComponent(id) == [i \in 1..UuidLen |-> (id \div Pow(256, UuidLen - i)) % 256]

\* util::Component::Identifier: a length byte, then the bytes
IdentifierComponent(t) == <<Len(t)>> \o t

\* serde_json::to_vec of a number: its decimal digits in ASCII
RECURSIVE to_vec(_)
to_vec(n) == IF n < 10 THEN <<48 + n>> ELSE to_vec(n \div 10) \o <<48 + (n % 10)>>

\* serde_json::from_slice of the bytes to_vec wrote
RECURSIVE from_slice(_)
from_slice(bytes) ==
    IF Len(bytes) = 1 THEN bytes[1] - 48
    ELSE 10 * from_slice(SubSeq(bytes, 1, Len(bytes) - 1)) + (bytes[Len(bytes)] - 48)

\* util::Component::Json: a fixed-width digest of the value (the hash of the
\* JSON, big-endian); distinct values of JsonValues get distinct digests
JsonComponent(value) == [i \in 1..JsonLen |-> (value * (2 * i + 1) + 17 * i) % 256]

\* util::read_uuid at position pos (1-based) of a key
read_uuid(bytes, pos) ==
    LET digits == SubSeq(bytes, pos, pos + UuidLen - 1)
        val[i \in 0..UuidLen] == IF i = 0 THEN 0 ELSE 256 * val[i - 1] + digits[i]
    IN  val[UuidLen]

\* util::read_identifier at position pos
read_identifier(bytes, pos) == SubSeq(bytes, pos + 1, pos + bytes[pos])

\* the cursor position after the identifier read at pos
after_identifier(bytes, pos) == pos + 1 + bytes[pos]

(***************************************************************************)
(* sled::Tree: an ordered map from key bytes to value bytes.               *)
(***************************************************************************)
EmptyTree == [k \in {} |-> <<>>]

Tree_insert(tree, key, value) ==
    [k \in DOMAIN tree \cup {key} |-> IF k = key THEN value ELSE tree[k]]

Tree_remove(tree, key) == [k \in DOMAIN tree \ {key} |-> tree[k]]

Tree_contains_key(tree, key) == key \in DOMAIN tree

Tree_get(tree, key) == IF key \in DOMAIN tree THEN Some(tree[key]) ELSE None

\* the byte-lexicographic order of keys
BytesLess(a, b) ==
    LET n == IF Len(a) < Len(b) THEN Len(a) ELSE Len(b)
        diff == {i \in 1..n : a[i] # b[i]}
    IN  IF diff = {} THEN Len(a) < Len(b)
        ELSE LET i == CHOOSE d \in diff : \A o \in diff : d <= o
             IN  a[i] < b[i]

starts_with(key, prefix) ==
    Len(prefix) <= Len(key) /\ SubSeq(key, 1, Len(prefix)) = prefix

\* the keys of a set in ascending byte order
RECURSIVE SortKeys(_)
SortKeys(keys) ==
    IF keys = {} THEN <<>>
    ELSE LET first == CHOOSE k \in keys : \A o \in keys : o = k \/ BytesLess(k, o)
         IN  <<first>> \o SortKeys(keys \ {first})

\* Tree::iter: every entry in key order, as <<key, value>> pairs
Tree_iter(tree) ==
    LET ks == SortKeys(DOMAIN tree) IN [i \in 1..Len(ks) |-> <<ks[i], tree[ks[i]]>>]

\* Tree::scan_prefix: the entries whose key starts with prefix, in key order
Tree_scan_prefix(tree, prefix) ==
    LET ks == SortKeys({k \in DOMAIN tree : starts_with(k, prefix)})
    IN  [i \in 1..Len(ks) |-> <<ks[i], tree[ks[i]]>>]

\* Tree::range(low..): the entries whose key is >= low, in key order
Tree_range(tree, low) ==
    LET ks == SortKeys({k \in DOMAIN tree : k = low \/ BytesLess(low, k)})
    IN  [i \in 1..Len(ks) |-> <<ks[i], tree[ks[i]]>>]

\* managers::take_while_prefixed: the longest head of the scan whose keys
\* start with prefix
RECURSIVE take_while_prefixed(_, _)
take_while_prefixed(items, prefix) ==
    IF items = <<>> \/ ~starts_with(items[1][1], prefix) THEN <<>>
    ELSE <<items[1]>> \o take_while_prefixed(Tail(items), prefix)

(***************************************************************************)
(* sled::Batch: the inserts gathered for one tree, applied in one step.    *)
(***************************************************************************)
EmptyBatch == EmptyTree

Batch_insert(batch, key, value) == Tree_insert(batch, key, value)

Tree_apply_batch(tree, batch) ==
    [k \in DOMAIN tree \cup DOMAIN batch |->
        IF k \in DOMAIN batch THEN batch[k] ELSE tree[k]]

(***************************************************************************)
(* SledHolder: the trees.  A holder value h is a record of them; the       *)
(* MetaDataManager's in-memory set travels with it as indexed_properties.  *)
(***************************************************************************)
EmptyHolder ==
    [db |-> EmptyTree, edges |-> EmptyTree, edge_ranges |-> EmptyTree,
     reversed_edge_ranges |-> EmptyTree, vertex_properties |-> EmptyTree,
     vertex_property_values |-> EmptyTree, edge_properties |-> EmptyTree,
     edge_property_values |-> EmptyTree, metadata |-> EmptyTree,
     indexed_properties |-> {}]

\* lib.rs reverse_edge
reverse_edge(edge) == Edge(edge.inbound_id, edge.t, edge.outbound_id)

(***************************************************************************)
(* EdgeRangeManager, over edge_ranges or reversed_edge_ranges.             *)
(***************************************************************************)
EdgeRangeManager_key(first_id, t, second_id) ==
    UuidComponent(first_id) \o IdentifierComponent(t) \o UuidComponent(second_id)

EdgeRangeManager_contains(tree, edge) ==
    Tree_contains_key(tree, EdgeRangeManager_key(edge.outbound_id, edge.t, edge.inbound_id))

\* the (first_id, t, second_id) read back from a key
EdgeRangeManager_read(k) ==
    <<read_uuid(k, 1), read_identifier(k, UuidLen + 1),
      read_uuid(k, after_identifier(k, UuidLen + 1))>>

EdgeRangeManager_iterate(items, prefix) ==
    LET filtered == take_while_prefixed(items, prefix)
    IN  [i \in 1..Len(filtered) |-> EdgeRangeManager_read(filtered[i][1])]

\* iterate_for_owner yielding the entries of every owner
EdgeRangeManager_iterate_for_any_owner(tree, id) ==
    EdgeRangeManager_iterate(Tree_iter(tree), <<>>)

EdgeRangeManager_iterate_for_owner(tree, id) ==
    LET prefix == UuidComponent(id)
    IN  EdgeRangeManager_iterate(Tree_scan_prefix(tree, prefix), prefix)

EdgeRangeManager_set(tree, first_id, t, second_id) ==
    Tree_insert(tree, EdgeRangeManager_key(first_id, t, second_id), <<>>)

EdgeRangeManager_set_batch(batch, first_id, t, second_id) ==
    Batch_insert(batch, EdgeRangeManager_key(first_id, t, second_id), <<>>)

\* delete leaving the entry of the edge in the range tree
EdgeRangeManager_delete_kept(tree, first_id, t, second_id) == tree

EdgeRangeManager_delete(tree, first_id, t, second_id) ==
    Tree_remove(tree, EdgeRangeManager_key(first_id, t, second_id))

(***************************************************************************)
(* VertexPropertyManager, over vertex_properties and its value index.      *)
(***************************************************************************)
VertexPropertyManager_key(vertex_id, name) ==
    UuidComponent(vertex_id) \o IdentifierComponent(name)

VertexPropertyManager_key_value_index(vertex_id, value, property_name) ==
    IdentifierComponent(property_name) \o JsonComponent(value) \o UuidComponent(vertex_id)

\* read_key_value_index, the owner part
VertexPropertyManager_read_key_value_index(k) ==
    read_uuid(k, after_identifier(k, 1) + JsonLen)

VertexPropertyManager_value_iterate_uuids(items) ==
    [i \in 1..Len(items) |-> VertexPropertyManager_read_key_value_index(items[i][1])]

VertexPropertyManager_iterate_for_property_name(h, name) ==
    VertexPropertyManager_value_iterate_uuids(
        Tree_scan_prefix(h.vertex_property_values, IdentifierComponent(name)))

VertexPropertyManager_iterate_for_property_name_and_value(h, name, value) ==
    VertexPropertyManager_value_iterate_uuids(
        Tree_scan_prefix(h.vertex_property_values,
                         IdentifierComponent(name) \o JsonComponent(value)))

\* the same decoding over the whole tree, whoever the owner
VertexPropertyManager_iterate_for_any_owner(h, vertex_id) ==
    LET items == Tree_iter(h.vertex_properties)
    IN  [i \in 1..Len(items) |->
            <<<<read_uuid(items[i][1], 1), read_identifier(items[i][1], UuidLen + 1)>>,
              from_slice(items[i][2])>>]

\* ((owner_id, name), value) for every property of the vertex, in key order
VertexPropertyManager_iterate_for_owner(h, vertex_id) ==
    LET items == Tree_scan_prefix(h.vertex_properties, UuidComponent(vertex_id))
    IN  [i \in 1..Len(items) |->
            <<<<read_uuid(items[i][1], 1), read_identifier(items[i][1], UuidLen + 1)>>,
              from_slice(items[i][2])>>]

VertexPropertyManager_get(h, vertex_id, name) ==
    LET got == Tree_get(h.vertex_properties, VertexPropertyManager_key(vertex_id, name))
    IN  IF got = None THEN None ELSE Some(from_slice(got[1]))

\* set writing the property row and dropping the old index entry, without
\* the insert of the new index entry
VertexPropertyManager_set_unindexed(h, vertex_id, name, value) ==
    LET key == VertexPropertyManager_key(vertex_id, name)
        old == Tree_get(h.vertex_properties, key)
    IN  [h EXCEPT
            !.vertex_properties = Tree_insert(@, key, to_vec(value)),
            !.vertex_property_values =
                IF old # None
                THEN Tree_remove(@, VertexPropertyManager_key_value_index(
                                        vertex_id, from_slice(old[1]), name))
                ELSE @]

VertexPropertyManager_set(h, vertex_id, name, value) ==
    LET key == VertexPropertyManager_key(vertex_id, name)
        value_json == to_vec(value)
        old == Tree_get(h.vertex_properties, key)
        index1 == IF old # None
                  THEN Tree_remove(h.vertex_property_values,
                           VertexPropertyManager_key_value_index(
                               vertex_id, from_slice(old[1]), name))
                  ELSE h.vertex_property_values
    IN  [h EXCEPT
            !.vertex_properties = Tree_insert(@, key, value_json),
            !.vertex_property_values =
                Tree_insert(index1,
                    VertexPropertyManager_key_value_index(vertex_id, value, name),
                    value_json)]

\* delete removing the property row only
VertexPropertyManager_delete_row_only(h, vertex_id, name) ==
    [h EXCEPT !.vertex_properties =
                  Tree_remove(@, VertexPropertyManager_key(vertex_id, name))]

VertexPropertyManager_delete(h, vertex_id, name) ==
    LET key == VertexPropertyManager_key(vertex_id, name)
        old_value == Tree_get(h.vertex_properties, key)
    IN  [h EXCEPT
            !.vertex_properties = Tree_remove(@, key),
            !.vertex_property_values =
                IF old_value # None
                THEN Tree_remove(@, VertexPropertyManager_key_value_index(
                                        vertex_id, from_slice(old_value[1]), name))
                ELSE @]

(***************************************************************************)
(* EdgePropertyManager, over edge_properties and its value index.          *)
(***************************************************************************)
EdgePropertyManager_key(edge, name) ==
    UuidComponent(edge.outbound_id) \o IdentifierComponent(edge.t)
        \o UuidComponent(edge.inbound_id) \o IdentifierComponent(name)

\* read_key: (edge, name)
EdgePropertyManager_read_key(k) ==
    LET t_end == after_identifier(k, UuidLen + 1)
    IN  <<Edge(read_uuid(k, 1), read_identifier(k, UuidLen + 1), read_uuid(k, t_end)),
          read_identifier(k, t_end + UuidLen)>>

EdgePropertyManager_key_value_index(edge, value, property_name) ==
    IdentifierComponent(property_name) \o JsonComponent(value)
        \o UuidComponent(edge.outbound_id) \o IdentifierComponent(edge.t)
        \o UuidComponent(edge.inbound_id)

\* read_key_value_index, the edge part
EdgePropertyManager_read_key_value_index(k) ==
    LET o_pos == after_identifier(k, 1) + JsonLen
        t_pos == o_pos + UuidLen
    IN  Edge(read_uuid(k, o_pos), read_identifier(k, t_pos),
             read_uuid(k, after_identifier(k, t_pos)))

EdgePropertyManager_iterate_for_property_name(h, name) ==
    LET items == Tree_scan_prefix(h.edge_property_values, IdentifierComponent(name))
    IN  [i \in 1..Len(items) |-> EdgePropertyManager_read_key_value_index(items[i][1])]

EdgePropertyManager_iterate_for_property_name_and_value(h, name, value) ==
    LET items == Tree_scan_prefix(h.edge_property_values,
                     IdentifierComponent(name) \o JsonComponent(value))
    IN  [i \in 1..Len(items) |-> EdgePropertyManager_read_key_value_index(items[i][1])]

\* ((edge, name), value) for every property of the edge, in key order
EdgePropertyManager_iterate_for_owner(h, edge) ==
    LET prefix == UuidComponent(edge.outbound_id) \o IdentifierComponent(edge.t)
                      \o UuidComponent(edge.inbound_id)
        items == Tree_scan_prefix(h.edge_properties, prefix)
    IN  [i \in 1..Len(items) |->
            <<EdgePropertyManager_read_key(items[i][1]), from_slice(items[i][2])>>]

EdgePropertyManager_get(h, edge, name) ==
    LET got == Tree_get(h.edge_properties, EdgePropertyManager_key(edge, name))
    IN  IF got = None THEN None ELSE Some(from_slice(got[1]))

\* set without the removal of the index entry of the value overwritten
EdgePropertyManager_set_keep_old(h, edge, name, value) ==
    LET key == EdgePropertyManager_key(edge, name)
        value_json == to_vec(value)
    IN  [h EXCEPT
            !.edge_properties = Tree_insert(@, key, value_json),
            !.edge_property_values =
                Tree_insert(@, EdgePropertyManager_key_value_index(edge, value, name),
                    value_json)]

EdgePropertyManager_set(h, edge, name, value) ==
    LET key == EdgePropertyManager_key(edge, name)
        value_json == to_vec(value)
        old_value == Tree_get(h.edge_properties, key)
        index1 == IF old_value # None
                  THEN Tree_remove(h.edge_property_values,
                           EdgePropertyManager_key_value_index(
                               edge, from_slice(old_value[1]), name))
                  ELSE h.edge_property_values
    IN  [h EXCEPT
            !.edge_properties = Tree_insert(@, key, value_json),
            !.edge_property_values =
                Tree_insert(index1,
                    EdgePropertyManager_key_value_index(edge, value, name), value_json)]

\* delete removing the property row of the edge only
EdgePropertyManager_delete_row_only(h, edge, name) ==
    [h EXCEPT !.edge_properties = Tree_remove(@, EdgePropertyManager_key(edge, name))]

EdgePropertyManager_delete(h, edge, name) ==
    LET key == EdgePropertyManager_key(edge, name)
        old_value == Tree_get(h.edge_properties, key)
    IN  [h EXCEPT
            !.edge_properties = Tree_remove(@, key),
            !.edge_property_values =
                IF old_value # None
                THEN Tree_remove(@, EdgePropertyManager_key_value_index(
                                        edge, from_slice(old_value[1]), name))
                ELSE @]

(***************************************************************************)
(* EdgeManager, over edges.                                                *)
(***************************************************************************)
EdgeManager_key(edge) ==
    UuidComponent(edge.outbound_id) \o IdentifierComponent(edge.t)
        \o UuidComponent(edge.inbound_id)

EdgeManager_count(h) == Len(Tree_iter(h.edges))

\* set_batch putting the edge into the reversed range batch unreversed
EdgeManager_set_batch_unreversed(b, edge) ==
    [b EXCEPT
        !.edge_creation_batch = Batch_insert(@, EdgeManager_key(edge), <<>>),
        !.edge_range_creation_batch =
            EdgeRangeManager_set_batch(@, edge.outbound_id, edge.t, edge.inbound_id),
        !.edge_range_rev_creation_batch =
            EdgeRangeManager_set_batch(@, edge.outbound_id, edge.t, edge.inbound_id)]

\* the three batches of IndraSledBatch that an edge goes into
EdgeManager_set_batch(b, edge) ==
    LET r == reverse_edge(edge)
    IN  [b EXCEPT
            !.edge_creation_batch = Batch_insert(@, EdgeManager_key(edge), <<>>),
            !.edge_range_creation_batch =
                EdgeRangeManager_set_batch(@, edge.outbound_id, edge.t, edge.inbound_id),
            !.edge_range_rev_creation_batch =
                EdgeRangeManager_set_batch(@, r.outbound_id, r.t, r.inbound_id)]

\* set writing the reversed range entry unreversed
EdgeManager_set_unreversed(h, edge) ==
    [h EXCEPT
        !.edges = Tree_insert(@, EdgeManager_key(edge), <<>>),
        !.edge_ranges =
            EdgeRangeManager_set(@, edge.outbound_id, edge.t, edge.inbound_id),
        !.reversed_edge_ranges =
            EdgeRangeManager_set(@, edge.outbound_id, edge.t, edge.inbound_id)]

EdgeManager_set(h, edge) ==
    LET r == reverse_edge(edge)
    IN  [h EXCEPT
            !.edges = Tree_insert(@, EdgeManager_key(edge), <<>>),
            !.edge_ranges =
                EdgeRangeManager_set(@, edge.outbound_id, edge.t, edge.inbound_id),
            !.reversed_edge_ranges =
                EdgeRangeManager_set(@, r.outbound_id, r.t, r.inbound_id)]

\* the loop of EdgeManager::delete over the properties of the edge
RECURSIVE EdgeManager_delete_properties(_, _)
EdgeManager_delete_properties(h, items) ==
    IF items = <<>> THEN h
    ELSE EdgeManager_delete_properties(
             EdgePropertyManager_delete(h, items[1][1][1], items[1][1][2]), Tail(items))

\* delete with the reversed range entry removed under the edge's own order,
\* (outbound, t, inbound), where the code reverses the edge first
EdgeManager_delete_unreversed(h, edge) ==
    LET h1 == [h EXCEPT
                  !.edges = Tree_remove(@, EdgeManager_key(edge)),
                  !.edge_ranges =
                      EdgeRangeManager_delete(@, edge.outbound_id, edge.t, edge.inbound_id),
                  !.reversed_edge_ranges =
                      EdgeRangeManager_delete(@, edge.outbound_id, edge.t, edge.inbound_id)]
    IN  EdgeManager_delete_properties(h1, EdgePropertyManager_iterate_for_owner(h1, edge))

EdgeManager_delete(h, edge) ==
    LET r == reverse_edge(edge)
        h1 == [h EXCEPT
                  !.edges = Tree_remove(@, EdgeManager_key(edge)),
                  !.edge_ranges =
                      EdgeRangeManager_delete(@, edge.outbound_id, edge.t, edge.inbound_id),
                  !.reversed_edge_ranges =
                      EdgeRangeManager_delete(@, r.outbound_id, r.t, r.inbound_id)]
    IN  EdgeManager_delete_properties(h1, EdgePropertyManager_iterate_for_owner(h1, edge))

(***************************************************************************)
(* VertexManager, over the default tree db.                                *)
(***************************************************************************)
VertexManager_key(id) == UuidComponent(id)

VertexManager_count(h) == Len(Tree_iter(h.db))

VertexManager_exists(h, id) == Tree_get(h.db, VertexManager_key(id)) # None

VertexManager_get(h, id) ==
    LET got == Tree_get(h.db, VertexManager_key(id))
    IN  IF got = None THEN None ELSE Some(read_identifier(got[1], 1))

\* (id, label) of every entry of a scan
VertexManager_iterate(items) ==
    [i \in 1..Len(items) |-> <<read_uuid(items[i][1], 1), read_identifier(items[i][2], 1)>>]

\* iterate_for_range over the keys after the key of id, id itself left out
VertexManager_iterate_for_range_after(h, id) ==
    VertexManager_iterate(
        SelectSeq(Tree_iter(h.db), LAMBDA item : BytesLess(UuidComponent(id), item[1])))

VertexManager_iterate_for_range(h, id) ==
    VertexManager_iterate(Tree_range(h.db, UuidComponent(id)))

\* create writing the row before it looks whether the id was there
VertexManager_create_overwrite(h, vertex) ==
    LET key == VertexManager_key(vertex.id)
    IN  [h |-> [h EXCEPT !.db = Tree_insert(@, key, IdentifierComponent(vertex.t))],
         ret |-> ~Tree_contains_key(h.db, key)]

\* create: [h |-> the holder afterwards, ret |-> the bool returned]
VertexManager_create(h, vertex) ==
    LET key == VertexManager_key(vertex.id)
    IN  IF Tree_contains_key(h.db, key) THEN [h |-> h, ret |-> FALSE]
        ELSE [h |-> [h EXCEPT !.db = Tree_insert(@, key, IdentifierComponent(vertex.t))],
              ret |-> TRUE]

\* create_batch: the insert of the vertex row into the vertex batch
VertexManager_create_batch(b, vertex) ==
    [b EXCEPT !.vertex_creation_batch =
        Batch_insert(@, VertexManager_key(vertex.id), IdentifierComponent(vertex.t))]

\* the three loops of VertexManager::delete
RECURSIVE VertexManager_delete_properties(_, _)
VertexManager_delete_properties(h, items) ==
    IF items = <<>> THEN h
    ELSE VertexManager_delete_properties(
             VertexPropertyManager_delete(h, items[1][1][1], items[1][1][2]), Tail(items))

RECURSIVE VertexManager_delete_outbound(_, _)
VertexManager_delete_outbound(h, items) ==
    IF items = <<>> THEN h
    ELSE VertexManager_delete_outbound(
             EdgeManager_delete(h, Edge(items[1][1], items[1][2], items[1][3])),
             Tail(items))

RECURSIVE VertexManager_delete_inbound(_, _)
VertexManager_delete_inbound(h, items) ==
    IF items = <<>> THEN h
    ELSE VertexManager_delete_inbound(
             EdgeManager_delete(h, Edge(items[1][3], items[1][2], items[1][1])),
             Tail(items))

\* delete without the scan of the reversed range tree: the edges the vertex
\* is the inbound end of are left
VertexManager_delete_outbound_only(h, id) ==
    LET h1 == [h EXCEPT !.db = Tree_remove(@, VertexManager_key(id))]
        h2 == VertexManager_delete_properties(
                  h1, VertexPropertyManager_iterate_for_owner(h1, id))
    IN  VertexManager_delete_outbound(
            h2, EdgeRangeManager_iterate_for_owner(h2.edge_ranges, id))

VertexManager_delete(h, id) ==
    LET h1 == [h EXCEPT !.db = Tree_remove(@, VertexManager_key(id))]
        h2 == VertexManager_delete_properties(
                  h1, VertexPropertyManager_iterate_for_owner(h1, id))
        h3 == VertexManager_delete_outbound(
                  h2, EdgeRangeManager_iterate_for_owner(h2.edge_ranges, id))
    IN  VertexManager_delete_inbound(
            h3, EdgeRangeManager_iterate_for_owner(h3.reversed_edge_ranges, id))

(***************************************************************************)
(* MetaDataManager, over the metadata tree and its in-memory set.          *)
(***************************************************************************)
\* "IndexedProperties" in ASCII
INDEXED_PROPERTIES ==
    <<73, 110, 100, 101, 120, 101, 100, 80, 114, 111, 112, 101, 114, 116, 105, 101, 115>>

MetaDataManager_is_indexed(h, prop) == prop \in h.indexed_properties

\* load: the names found under the prefix
MetaDataManager_load(tree) ==
    LET prefix == IdentifierComponent(INDEXED_PROPERTIES)
        items == Tree_scan_prefix(tree, prefix)
    IN  {read_identifier(items[i][1], after_identifier(items[i][1], 1)) :
            i \in 1..Len(items)}

\* new: an empty set, then load
MetaDataManager_new(h) ==
    [h EXCEPT !.indexed_properties = {} \cup MetaDataManager_load(h.metadata)]

\* the first loop of sync: every key under the prefix removed
RECURSIVE MetaDataManager_sync_remove(_, _)
MetaDataManager_sync_remove(tree, items) ==
    IF items = <<>> THEN tree
    ELSE MetaDataManager_sync_remove(Tree_remove(tree, items[1][1]), Tail(items))

\* the second loop of sync: one key per name of the in-memory set
RECURSIVE MetaDataManager_sync_insert(_, _)
MetaDataManager_sync_insert(tree, names) ==
    IF names = {} THEN tree
    ELSE LET index == CHOOSE n \in names : TRUE
         IN  MetaDataManager_sync_insert(
                 Tree_insert(tree,
                     IdentifierComponent(INDEXED_PROPERTIES) \o IdentifierComponent(index),
                     <<>>),
                 names \ {index})

\* sync without its first loop: the keys under the prefix are left in place
MetaDataManager_sync_unerased(h) ==
    [h EXCEPT !.metadata = MetaDataManager_sync_insert(@, h.indexed_properties)]

MetaDataManager_sync(h) ==
    LET prefix == IdentifierComponent(INDEXED_PROPERTIES)
        erased == MetaDataManager_sync_remove(h.metadata, Tree_scan_prefix(h.metadata, prefix))
    IN  [h EXCEPT !.metadata = MetaDataManager_sync_insert(erased, h.indexed_properties)]

\* add_index on the in-memory set alone, without the sync to the tree
MetaDataManager_add_index_unsynced(h, prop) ==
    [h EXCEPT !.indexed_properties = @ \cup {prop}]

MetaDataManager_add_index(h, prop) ==
    IF prop \in h.indexed_properties THEN h
    ELSE MetaDataManager_sync([h EXCEPT !.indexed_properties = @ \cup {prop}])

MetaDataManager_remove_index(h, prop) ==
    IF prop \notin h.indexed_properties THEN h
    ELSE MetaDataManager_sync([h EXCEPT !.indexed_properties = @ \ {prop}])

(***************************************************************************)
(* IndraSledBatch and the operations of SledTransaction.  An operation     *)
(* that writes maps a holder to the holder afterwards, or to               *)
(* [h |-> the holder afterwards, ret |-> the value returned].              *)
(***************************************************************************)
IndraSledBatch_default ==
    [vertex_creation_batch |-> EmptyBatch, edge_creation_batch |-> EmptyBatch,
     edge_range_creation_batch |-> EmptyBatch,
     edge_range_rev_creation_batch |-> EmptyBatch]

IndraSledBatch_apply(b, h) ==
    [h EXCEPT
        !.db = Tree_apply_batch(@, b.vertex_creation_batch),
        !.edges = Tree_apply_batch(@, b.edge_creation_batch),
        !.edge_ranges = Tree_apply_batch(@, b.edge_range_creation_batch),
        !.reversed_edge_ranges = Tree_apply_batch(@, b.edge_range_rev_creation_batch)]

vertex_count(h) == VertexManager_count(h)

edge_count(h) == EdgeManager_count(h)

\* EdgeRangeManager::iterate_for_all: every entry of the forward range tree
EdgeRangeManager_iterate_for_all(tree) ==
    LET items == Tree_iter(tree)
    IN  [i \in 1..Len(items) |->
            LET r == EdgeRangeManager_read(items[i][1]) IN Edge(r[1], r[2], r[3])]

all_edges(h) == EdgeRangeManager_iterate_for_all(h.edge_ranges)

\* all_vertices: the range from Uuid::default(), the nil Uuid
all_vertices(h) ==
    LET items == VertexManager_iterate_for_range(h, 0)
    IN  [i \in 1..Len(items) |-> Vertex(items[i][1], items[i][2])]

range_vertices(h, offset) ==
    LET items == VertexManager_iterate_for_range(h, offset)
    IN  [i \in 1..Len(items) |-> Vertex(items[i][1], items[i][2])]

\* specific_vertices stopping at the first id that is absent
RECURSIVE specific_vertices_until_absent(_, _)
specific_vertices_until_absent(h, ids) ==
    IF ids = <<>> THEN <<>>
    ELSE LET v == VertexManager_get(h, ids[1])
         IN  IF v = None THEN <<>>
             ELSE <<Vertex(ids[1], v[1])>> \o specific_vertices_until_absent(h, Tail(ids))

\* specific_vertices: filter_map over ids of VertexManager::get
RECURSIVE specific_vertices(_, _)
specific_vertices(h, ids) ==
    IF ids = <<>> THEN <<>>
    ELSE LET v == VertexManager_get(h, ids[1])
         IN  (IF v = None THEN <<>> ELSE <<Vertex(ids[1], v[1])>>)
                 \o specific_vertices(h, Tail(ids))

\* EdgeRangeManager::iterate_for_range(edge): the entries from the key of
\* the edge on, the key and the entries taken in the order of the instance
\* (reversed: inbound, t, outbound) and given back as edges
EdgeRangeManager_iterate_for_range(tree, offset, reversed) ==
    LET from == IF reversed THEN reverse_edge(offset) ELSE offset
        items == Tree_range(tree,
                     EdgeRangeManager_key(from.outbound_id, from.t, from.inbound_id))
    IN  [i \in 1..Len(items) |->
            LET r == EdgeRangeManager_read(items[i][1])
            IN  IF reversed THEN Edge(r[3], r[2], r[1]) ELSE Edge(r[1], r[2], r[3])]

range_edges(h, offset) == EdgeRangeManager_iterate_for_range(h.edge_ranges, offset, FALSE)

range_reversed_edges(h, offset) ==
    EdgeRangeManager_iterate_for_range(h.reversed_edge_ranges, offset, TRUE)

\* specific_edges: the edges that edge_range_manager.contains holds of
RECURSIVE specific_edges(_, _)
specific_edges(h, es) ==
    IF es = <<>> THEN <<>>
    ELSE (IF EdgeRangeManager_contains(h.edge_ranges, es[1]) THEN <<es[1]>> ELSE <<>>)
             \o specific_edges(h, Tail(es))

vertex_ids_with_property(h, name) ==
    IF ~MetaDataManager_is_indexed(h, name) THEN None
    ELSE Some(VertexPropertyManager_iterate_for_property_name(h, name))

vertex_ids_with_property_value(h, name, value) ==
    IF ~MetaDataManager_is_indexed(h, name) THEN None
    ELSE Some(VertexPropertyManager_iterate_for_property_name_and_value(h, name, value))

edges_with_property(h, name) ==
    IF ~MetaDataManager_is_indexed(h, name) THEN None
    ELSE Some(EdgePropertyManager_iterate_for_property_name(h, name))

\* edges_with_property_value answering None for an indexed name no edge
\* carries the value of
edges_with_property_value_nonempty(h, name, value) ==
    LET found == EdgePropertyManager_iterate_for_property_name_and_value(h, name, value)
    IN  IF ~MetaDataManager_is_indexed(h, name) \/ found = <<>> THEN None
        ELSE Some(found)

edges_with_property_value(h, name, value) ==
    IF ~MetaDataManager_is_indexed(h, name) THEN None
    ELSE Some(EdgePropertyManager_iterate_for_property_name_and_value(h, name, value))

vertex_property(h, id, name) == VertexPropertyManager_get(h, id, name)

all_vertex_properties_for_vertex(h, id) ==
    LET items == VertexPropertyManager_iterate_for_owner(h, id)
    IN  [i \in 1..Len(items) |-> <<items[i][1][2], items[i][2]>>]

edge_property(h, edge, name) == EdgePropertyManager_get(h, edge, name)

all_edge_properties_for_edge(h, edge) ==
    LET items == EdgePropertyManager_iterate_for_owner(h, edge)
    IN  [i \in 1..Len(items) |-> <<items[i][1][2], items[i][2]>>]

RECURSIVE delete_vertices(_, _)
delete_vertices(h, vertices) ==
    IF vertices = <<>> THEN h
    ELSE delete_vertices(VertexManager_delete(h, vertices[1].id), Tail(vertices))

RECURSIVE delete_edges(_, _)
delete_edges(h, edges) ==
    IF edges = <<>> THEN h
    ELSE delete_edges(
             IF VertexManager_get(h, edges[1].outbound_id) # None
             THEN EdgeManager_delete(h, edges[1]) ELSE h,
             Tail(edges))

RECURSIVE delete_vertex_properties(_, _)
delete_vertex_properties(h, props) ==
    IF props = <<>> THEN h
    ELSE delete_vertex_properties(
             VertexPropertyManager_delete(h, props[1][1], props[1][2]), Tail(props))

RECURSIVE delete_edge_properties(_, _)
delete_edge_properties(h, props) ==
    IF props = <<>> THEN h
    ELSE delete_edge_properties(
             EdgePropertyManager_delete(h, props[1][1], props[1][2]), Tail(props))

sync(h) == MetaDataManager_sync(h)

create_vertex(h, vertex) == VertexManager_create(h, vertex)

\* create_edge refusing only when both endpoints are absent
create_edge_either(h, edge) ==
    LET outbound_exists == VertexManager_exists(h, edge.outbound_id)
        inbound_exists == VertexManager_exists(h, edge.inbound_id)
    IN  IF ~outbound_exists /\ ~inbound_exists THEN [h |-> h, ret |-> FALSE]
        ELSE [h |-> EdgeManager_set(h, edge), ret |-> TRUE]

\* create_edge as a conditional insert: false for an edge that is stored
create_edge_once(h, edge) ==
    LET outbound_exists == VertexManager_exists(h, edge.outbound_id)
        inbound_exists == VertexManager_exists(h, edge.inbound_id)
    IN  IF ~outbound_exists \/ ~inbound_exists
               \/ Tree_contains_key(h.edges, EdgeManager_key(edge))
        THEN [h |-> h, ret |-> FALSE]
        ELSE [h |-> EdgeManager_set(h, edge), ret |-> TRUE]

create_edge(h, edge) ==
    LET outbound_exists == VertexManager_exists(h, edge.outbound_id)
        inbound_exists == VertexManager_exists(h, edge.inbound_id)
    IN  IF ~outbound_exists \/ ~inbound_exists THEN [h |-> h, ret |-> FALSE]
        ELSE [h |-> EdgeManager_set(h, edge), ret |-> TRUE]

\* index_property with the MetaDataManager on the default tree: the key of
\* the name lands among the vertices
index_property_in_default_tree(h, name) ==
    [MetaDataManager_add_index(h, name) EXCEPT
        !.db = Tree_insert(@, IdentifierComponent(INDEXED_PROPERTIES)
                                 \o IdentifierComponent(name), <<>>)]

index_property(h, name) == MetaDataManager_add_index(h, name)

RECURSIVE set_vertex_properties(_, _, _, _)
set_vertex_properties(h, vertices, name, value) ==
    IF vertices = <<>> THEN h
    ELSE set_vertex_properties(
             VertexPropertyManager_set(h, vertices[1], name, value),
             Tail(vertices), name, value)

RECURSIVE set_edge_properties(_, _, _, _)
set_edge_properties(h, edges, name, value) ==
    IF edges = <<>> THEN h
    ELSE set_edge_properties(
             EdgePropertyManager_set(h, edges[1], name, value), Tail(edges), name, value)

\* BulkInsertItem
BulkVertex(v) == [kind |-> "Vertex", v |-> v]
BulkEdge(e) == [kind |-> "Edge", e |-> e]
BulkVertexProperty(id, p, v) == [kind |-> "VertexProperty", id |-> id, p |-> p, v |-> v]
BulkEdgeProperty(e, p, v) == [kind |-> "EdgeProperty", e |-> e, p |-> p, v |-> v]

\* the first loop of bulk_insert: the batches filled from the items
RECURSIVE bulk_insert_batch(_, _)
bulk_insert_batch(b, items) ==
    IF items = <<>> THEN b
    ELSE bulk_insert_batch(
             CASE items[1].kind = "Vertex" -> VertexManager_create_batch(b, items[1].v)
               [] items[1].kind = "Edge" -> EdgeManager_set_batch(b, items[1].e)
               [] OTHER -> b,
             Tail(items))

\* the items of one kind, in their order
RECURSIVE bulk_insert_props(_, _)
bulk_insert_props(items, kind) ==
    IF items = <<>> THEN <<>>
    ELSE (IF items[1].kind = kind THEN <<items[1]>> ELSE <<>>)
             \o bulk_insert_props(Tail(items), kind)

RECURSIVE bulk_insert_vertex_props(_, _)
bulk_insert_vertex_props(h, vertex_props) ==
    IF vertex_props = <<>> THEN h
    ELSE bulk_insert_vertex_props(
             VertexPropertyManager_set(h, vertex_props[1].id, vertex_props[1].p,
                                       vertex_props[1].v),
             Tail(vertex_props))

RECURSIVE bulk_insert_edge_props(_, _)
bulk_insert_edge_props(h, edge_props) ==
    IF edge_props = <<>> THEN h
    ELSE bulk_insert_edge_props(
             EdgePropertyManager_set(h, edge_props[1].e, edge_props[1].p, edge_props[1].v),
             Tail(edge_props))

bulk_insert(h, items) ==
    LET batch == bulk_insert_batch(IndraSledBatch_default, items)
        h1 == IndraSledBatch_apply(batch, h)
        h2 == bulk_insert_vertex_props(h1, bulk_insert_props(items, "VertexProperty"))
        h3 == bulk_insert_edge_props(h2, bulk_insert_props(items, "EdgeProperty"))
    IN  sync(h3)

(***************************************************************************)
(* The state: the trees of the holder and the in-memory set of the         *)
(* transaction's MetaDataManager.  pre, last and prev watch the run: last  *)
(* is a watched call with its result, pre the holder it started from, and  *)
(* prev the watched call right before it (when two calls in a row are      *)
(* watched).  A run is any sequence of calls; the watched ones are its     *)
(* last one or two.  pending is the rest of a call that is run step by     *)
(* step, empty when the calls are taken whole.                             *)
(***************************************************************************)
VARIABLES db, edges, edge_ranges, reversed_edge_ranges, vertex_properties,
          vertex_property_values, edge_properties, edge_property_values,
          metadata, indexed_properties, pre, last, prev, pending, txs

trees == <<db, edges, edge_ranges, reversed_edge_ranges, vertex_properties,
           vertex_property_values, edge_properties, edge_property_values, metadata>>
vars == <<db, edges, edge_ranges, reversed_edge_ranges, vertex_properties,
          vertex_property_values, edge_properties, edge_property_values,
          metadata, indexed_properties, pre, last, prev, pending, txs>>

Holder ==
    [db |-> db, edges |-> edges, edge_ranges |-> edge_ranges,
     reversed_edge_ranges |-> reversed_edge_ranges,
     vertex_properties |-> vertex_properties,
     vertex_property_values |-> vertex_property_values,
     edge_properties |-> edge_properties,
     edge_property_values |-> edge_property_values, metadata |-> metadata,
     indexed_properties |-> indexed_properties]

Call(op, args, ret) == [op |-> op, args |-> args, ret |-> ret]

\* the transactions that are open on the holder at the same time, when more
\* than one is: txs[t] holds the in-memory set of the MetaDataManager of
\* transaction t, what its running call has still to do, and its calls so far
Transactions == {1, 2}
Opened(names) == [indexed_properties |-> names, pending |-> <<>>, calls |-> <<>>]
NoCall == Call("none", <<>>, TRUE)

\* the one-element lists over a set
Singles(S) == {<<x>> : x \in S}

(***************************************************************************)
(* The inputs of the calls.  Spec runs the graph operations (vertices,     *)
(* edges, properties, bulk insert) over GraphScope; SpecIndex runs the     *)
(* property operations, the index registry and the index queries over      *)
(* IndexScope.                                                             *)
(***************************************************************************)
E12 == Edge(1, TypeK, 2)
E21 == Edge(2, TypeK, 1)
E11 == Edge(1, TypeK, 1)

GraphScope ==
    [vertices |-> {Vertex(1, TypeP), Vertex(1, TypeQ), Vertex(2, TypeP)},
     vertex_lists |-> Singles({Vertex(1, TypeP), Vertex(2, TypeP)})
                          \cup {<<Vertex(1, TypeP), Vertex(2, TypeP)>>},
     edges |-> {E12, E21, E11},
     owners |-> Uuids,
     names |-> {NameB},
     values |-> {30},
     bulk |-> Singles({BulkVertex(Vertex(1, TypeQ)), BulkVertex(Vertex(2, TypeP)),
                       BulkEdge(E12), BulkEdge(E21), BulkEdge(E11),
                       BulkVertexProperty(1, NameB, 30),
                       BulkEdgeProperty(E12, NameB, 31)})
                  \cup {<<BulkVertex(Vertex(1, TypeP)), BulkVertex(Vertex(1, TypeQ))>>,
                        <<BulkVertexProperty(1, NameB, 30), BulkVertexProperty(1, NameB, 31)>>,
                        <<BulkEdge(E21), BulkEdgeProperty(E21, NameB, 30)>>,
                        <<BulkVertex(Vertex(1, TypeP)), BulkVertex(Vertex(2, TypeP)),
                          BulkEdge(E12), BulkVertexProperty(1, NameB, 31)>>}]

\* the offsets and the id lists of the vertex reads: 3 is never stored
Offsets == 0..3

IdLists ==
    {<<>>} \cup {<<a>> : a \in 1..3} \cup {<<a, b>> : a, b \in 1..2}
        \cup {<<2, 1, 2>>, <<1, 3, 2>>, <<3, 2, 1>>, <<1, 1, 3>>}

\* SpecRead runs the vertex and edge reads over the graphs of ReadScope
ReadScope ==
    [vertices |-> {Vertex(1, TypeP), Vertex(2, TypeP), Vertex(2, TypeQ)},
     vertex_lists |-> Singles({Vertex(1, TypeP), Vertex(2, TypeP)}),
     edges |-> {E12, E21, E11},
     offsets |-> Offsets,
     id_lists |-> IdLists,
     bulk |-> Singles({BulkVertex(Vertex(1, TypeQ)), BulkEdge(E12), BulkEdge(E21)})]

IndexScope ==
    [owners |-> Uuids,
     edges |-> {E12},
     names |-> PropNames,
     values |-> JsonValues,
     bulk |-> Singles({BulkVertexProperty(2, NameB, 31), BulkEdgeProperty(E12, NameAA, 30)})]

\* the model holds at most this much
WithinBounds(h) ==
    /\ Cardinality(DOMAIN h.vertex_properties) <= MaxVertexProps
    /\ Cardinality(DOMAIN h.edge_properties) <= MaxEdgeProps

\* a second watched call repeats the first on the same target, or reopens
Target(c) == IF c.op \in {"sync", "reopen"} THEN <<>> ELSE c.args[1]
FollowsUp(c1, c2) == c2.op = "reopen" \/ (c2.op = c1.op /\ Target(c2) = Target(c1))

\* the call c may be made: nothing is watched yet, or c follows up the one
\* watched call
Callable(c) == last.op = "none" \/ (prev.op = "none" /\ FollowsUp(last, c))

Watch(c) ==
    \E watched \in BOOLEAN :
        /\ last.op # "none" => watched
        /\ pre' = IF watched THEN Holder ELSE pre
        /\ prev' = IF watched THEN last ELSE prev
        /\ last' = IF watched THEN c ELSE last

\* a call that writes: result is the holder it leaves
Write(c, result) ==
    /\ Callable(c)
    /\ \E h \in {result} :
          /\ WithinBounds(h)
          /\ db' = h.db
          /\ edges' = h.edges
          /\ edge_ranges' = h.edge_ranges
          /\ reversed_edge_ranges' = h.reversed_edge_ranges
          /\ vertex_properties' = h.vertex_properties
          /\ vertex_property_values' = h.vertex_property_values
          /\ edge_properties' = h.edge_properties
          /\ edge_property_values' = h.edge_property_values
          /\ metadata' = h.metadata
          /\ indexed_properties' = h.indexed_properties
          /\ Watch(c)
          /\ UNCHANGED <<pending, txs>>

\* a call that only reads, watched
Read(c) ==
    /\ last.op = "none"
    /\ pre' = Holder
    /\ prev' = NoCall
    /\ last' = c
    /\ UNCHANGED <<trees, indexed_properties, pending, txs>>

Init ==
    /\ db = EmptyTree
    /\ edges = EmptyTree
    /\ edge_ranges = EmptyTree
    /\ reversed_edge_ranges = EmptyTree
    /\ vertex_properties = EmptyTree
    /\ vertex_property_values = EmptyTree
    /\ edge_properties = EmptyTree
    /\ edge_property_values = EmptyTree
    /\ metadata = EmptyTree
    /\ indexed_properties = {}
    /\ pre = EmptyHolder
    /\ last = NoCall
    /\ prev = NoCall
    /\ pending = <<>>
    /\ txs = [t \in Transactions |-> Opened({})]

CreateVertex(scope) ==
    \E vertex \in scope.vertices :
        LET r == create_vertex(Holder, vertex)
        IN  Write(Call("create_vertex", <<vertex.id, vertex.t>>, r.ret), r.h)

CreateEdge(scope) ==
    \E edge \in scope.edges :
        LET r == create_edge(Holder, edge)
        IN  Write(Call("create_edge", <<edge>>, r.ret), r.h)

DeleteVertices(scope) ==
    \E vertices \in scope.vertex_lists :
        Write(Call("delete_vertices", <<vertices>>, TRUE), delete_vertices(Holder, vertices))

DeleteEdges(scope) ==
    \E es \in Singles(scope.edges) :
        Write(Call("delete_edges", <<es>>, TRUE), delete_edges(Holder, es))

SetVertexProperties(scope) ==
    \E vertices \in Singles(scope.owners), name \in scope.names, value \in scope.values :
        Write(Call("set_vertex_properties", <<<<vertices, name>>, value>>, TRUE),
              set_vertex_properties(Holder, vertices, name, value))

SetEdgeProperties(scope) ==
    \E es \in Singles(scope.edges), name \in scope.names, value \in scope.values :
        Write(Call("set_edge_properties", <<<<es, name>>, value>>, TRUE),
              set_edge_properties(Holder, es, name, value))

DeleteVertexProperties(scope) ==
    \E props \in Singles(scope.owners \X scope.names) :
        Write(Call("delete_vertex_properties", <<props>>, TRUE),
              delete_vertex_properties(Holder, props))

DeleteEdgeProperties(scope) ==
    \E props \in Singles(scope.edges \X scope.names) :
        Write(Call("delete_edge_properties", <<props>>, TRUE),
              delete_edge_properties(Holder, props))

BulkInsert(scope) ==
    \E items \in scope.bulk :
        Write(Call("bulk_insert", <<items>>, TRUE), bulk_insert(Holder, items))

IndexProperty(scope) ==
    \E name \in scope.names :
        Write(Call("index_property", <<name>>, TRUE), index_property(Holder, name))

RemoveIndex(scope) ==
    \E name \in scope.names :
        Write(Call("remove_index", <<name>>, TRUE), MetaDataManager_remove_index(Holder, name))

Sync == Write(Call("sync", <<>>, TRUE), sync(Holder))

\* the datastore is closed and opened again: a new MetaDataManager on the tree
Reopen == Write(Call("reopen", <<>>, TRUE), MetaDataManager_new(Holder))

VertexIdsWithProperty(scope) ==
    \E name \in scope.names :
        Read(Call("vertex_ids_with_property", <<name>>,
                  vertex_ids_with_property(Holder, name)))

VertexIdsWithPropertyValue(scope) ==
    \E name \in scope.names, value \in scope.values :
        Read(Call("vertex_ids_with_property_value", <<name, value>>,
                  vertex_ids_with_property_value(Holder, name, value)))

EdgesWithProperty(scope) ==
    \E name \in scope.names :
        Read(Call("edges_with_property", <<name>>, edges_with_property(Holder, name)))

EdgesWithPropertyValue(scope) ==
    \E name \in scope.names, value \in scope.values :
        Read(Call("edges_with_property_value", <<name, value>>,
                  edges_with_property_value(Holder, name, value)))

AllVertices ==
    Read(Call("all_vertices", <<>>, all_vertices(Holder)))

RangeVertices(scope) ==
    \E offset \in scope.offsets :
        Read(Call("range_vertices", <<offset>>, range_vertices(Holder, offset)))

SpecificVertices(scope) ==
    \E ids \in scope.id_lists :
        Read(Call("specific_vertices", <<ids>>, specific_vertices(Holder, ids)))

RangeReversedEdges(scope) ==
    \E offset \in scope.edges :
        Read(Call("range_reversed_edges", <<offset>>, range_reversed_edges(Holder, offset)))

Next ==
    \/ CreateVertex(GraphScope)
    \/ CreateEdge(GraphScope)
    \/ DeleteVertices(GraphScope)
    \/ DeleteEdges(GraphScope)
    \/ SetVertexProperties(GraphScope)
    \/ SetEdgeProperties(GraphScope)
    \/ DeleteVertexProperties(GraphScope)
    \/ DeleteEdgeProperties(GraphScope)
    \/ BulkInsert(GraphScope)

Spec == Init /\ [][Next]_vars

AllVertexPropertiesForVertex(scope) ==
    \E id \in scope.owners :
        Read(Call("all_vertex_properties_for_vertex", <<id>>,
                  all_vertex_properties_for_vertex(Holder, id)))

AllEdgePropertiesForEdge(scope) ==
    \E edge \in scope.edges :
        Read(Call("all_edge_properties_for_edge", <<edge>>,
                  all_edge_properties_for_edge(Holder, edge)))

NextRead ==
    \/ CreateVertex(ReadScope)
    \/ CreateEdge(ReadScope)
    \/ DeleteVertices(ReadScope)
    \/ DeleteEdges(ReadScope)
    \/ BulkInsert(ReadScope)
    \/ AllVertices
    \/ RangeVertices(ReadScope)
    \/ SpecificVertices(ReadScope)
    \/ RangeReversedEdges(ReadScope)

SpecRead == Init /\ [][NextRead]_vars

NextIndex ==
    \/ SetVertexProperties(IndexScope)
    \/ SetEdgeProperties(IndexScope)
    \/ DeleteVertexProperties(IndexScope)
    \/ DeleteEdgeProperties(IndexScope)
    \/ BulkInsert(IndexScope)
    \/ IndexProperty(IndexScope)
    \/ RemoveIndex(IndexScope)
    \/ Sync
    \/ Reopen
    \/ VertexIdsWithProperty(IndexScope)
    \/ VertexIdsWithPropertyValue(IndexScope)
    \/ EdgesWithProperty(IndexScope)
    \/ EdgesWithPropertyValue(IndexScope)
    \/ AllVertexPropertiesForVertex(IndexScope)
    \/ AllEdgePropertiesForEdge(IndexScope)

SpecIndex == Init /\ [][NextIndex]_vars

\* the calls that write properties and the reads that enumerate them by
\* owner, with index_property among them and no query by name
NextProps ==
    \/ SetVertexProperties(IndexScope)
    \/ SetEdgeProperties(IndexScope)
    \/ DeleteVertexProperties(IndexScope)
    \/ DeleteEdgeProperties(IndexScope)
    \/ BulkInsert(IndexScope)
    \/ IndexProperty(IndexScope)
    \/ AllVertexPropertiesForVertex(IndexScope)
    \/ AllEdgePropertiesForEdge(IndexScope)

SpecProps == Init /\ [][NextProps]_vars

\* the calls of a transaction that creates and deletes one at a time: no
\* bulk_insert
NextSingle ==
    \/ CreateVertex(GraphScope)
    \/ CreateEdge(GraphScope)
    \/ DeleteVertices(GraphScope)
    \/ DeleteEdges(GraphScope)
    \/ SetVertexProperties(GraphScope)
    \/ SetEdgeProperties(GraphScope)
    \/ DeleteVertexProperties(GraphScope)
    \/ DeleteEdgeProperties(GraphScope)

SpecSingle == Init /\ [][NextSingle]_vars

\* the calls that the frame of a call is checked over: a graph of two
\* vertices, an edge between them and a loop, properties of two names on
\* the vertices and the edges, and the index registry
FrameScope ==
    [vertices |-> {Vertex(1, TypeP), Vertex(2, TypeP)},
     vertex_lists |-> Singles({Vertex(1, TypeP), Vertex(2, TypeP)}),
     edges |-> {E12, E11},
     owners |-> Uuids,
     names |-> PropNames,
     values |-> {30}]

NextFrame ==
    \/ CreateVertex(FrameScope)
    \/ CreateEdge(FrameScope)
    \/ DeleteVertices(FrameScope)
    \/ DeleteEdges(FrameScope)
    \/ SetVertexProperties(FrameScope)
    \/ SetEdgeProperties(FrameScope)
    \/ DeleteVertexProperties(FrameScope)
    \/ DeleteEdgeProperties(FrameScope)
    \/ IndexProperty(FrameScope)
    \/ Sync

SpecFrame == Init /\ [][NextFrame]_vars

\* the calls on one MetaDataManager: add_index, remove_index and sync, the
\* manager made anew on the tree, and the calls of the transaction that
\* reach sync or read the set
MetaScope ==
    [owners |-> {1},
     names |-> PropNames,
     values |-> {30},
     bulk |-> Singles({BulkVertexProperty(1, NameB, 31)})]

NextMeta ==
    \/ IndexProperty(MetaScope)
    \/ RemoveIndex(MetaScope)
    \/ Sync
    \/ Reopen
    \/ BulkInsert(MetaScope)
    \/ SetVertexProperties(MetaScope)

SpecMeta == Init /\ [][NextMeta]_vars

(***************************************************************************)
(* The operations step by step.  A call makes storage operations one       *)
(* after another, in the order of its code: single-key reads and writes,   *)
(* batch applications, the reads of a scan.  pending is what the running   *)
(* call has still to do: storage steps, and calls of manager functions     *)
(* that are not started yet.  A function is unfolded into its steps when   *)
(* it starts, on the holder of that moment.  Each step succeeds or fails   *)
(* with a storage error, and the process may stop between any two steps.   *)
(***************************************************************************)
Step(op, tree, key, value) ==
    [op |-> op, tree |-> tree, key |-> key, value |-> value, prefixed |-> FALSE, skip |-> 0]

\* the read of the next item of a scan; prefixed says that the scan runs
\* through take_while_prefixed, and skip is how much of pending the rest of
\* the loop over the scan is
Scan(tree, prefixed, skip) ==
    [op |-> "next", tree |-> tree, key |-> <<>>, value |-> <<>>,
     prefixed |-> prefixed, skip |-> skip]

\* the call of a function that is still to start
Defer(function, args) == Step("call", function, args, <<>>)

\* the items of a scan that come after the key the scan has reached: an
\* iterator reads the tree at every next(), key(item) is the key of an item
AfterKey(items, key(_), after) ==
    SelectSeq(items, LAMBDA item : BytesLess(after, key(item)))

\* the holder after the step succeeded
Effect(h, s) ==
    CASE s.op = "insert" -> [h EXCEPT ![s.tree] = Tree_insert(@, s.key, s.value)]
      [] s.op = "remove" -> [h EXCEPT ![s.tree] = Tree_remove(@, s.key)]
      [] s.op = "apply_batch" -> [h EXCEPT ![s.tree] = Tree_apply_batch(@, s.value)]
      [] s.op = "add_index" -> MetaDataManager_add_index(h, s.key)
      [] s.op = "sync" -> sync(h)
      [] OTHER -> h

\* take_while_prefixed answers false to an Err item: the scan ends there
ErrEndsScan(s) == s.op = "next" /\ s.prefixed

VertexPropertyManager_set_steps(h, vertex_id, name, value) ==
    LET key == VertexPropertyManager_key(vertex_id, name)
        value_json == to_vec(value)
        old == Tree_get(h.vertex_properties, key)
    IN  <<Step("get", "vertex_properties", key, <<>>)>>
            \o (IF old # None
                THEN <<Step("remove", "vertex_property_values",
                            VertexPropertyManager_key_value_index(
                                vertex_id, from_slice(old[1]), name), <<>>)>>
                ELSE <<>>)
            \o <<Step("insert", "vertex_properties", key, value_json),
                 Step("insert", "vertex_property_values",
                      VertexPropertyManager_key_value_index(vertex_id, value, name),
                      value_json)>>

VertexPropertyManager_delete_steps(h, vertex_id, name) ==
    LET key == VertexPropertyManager_key(vertex_id, name)
        old_value == Tree_get(h.vertex_properties, key)
    IN  <<Step("get", "vertex_properties", key, <<>>),
          Step("remove", "vertex_properties", key, <<>>)>>
            \o (IF old_value # None
                THEN <<Step("remove", "vertex_property_values",
                            VertexPropertyManager_key_value_index(
                                vertex_id, from_slice(old_value[1]), name), <<>>)>>
                ELSE <<>>)

EdgePropertyManager_set_steps(h, edge, name, value) ==
    LET key == EdgePropertyManager_key(edge, name)
        value_json == to_vec(value)
        old_value == Tree_get(h.edge_properties, key)
    IN  <<Step("get", "edge_properties", key, <<>>)>>
            \o (IF old_value # None
                THEN <<Step("remove", "edge_property_values",
                            EdgePropertyManager_key_value_index(
                                edge, from_slice(old_value[1]), name), <<>>)>>
                ELSE <<>>)
            \o <<Step("insert", "edge_properties", key, value_json),
                 Step("insert", "edge_property_values",
                      EdgePropertyManager_key_value_index(edge, value, name),
                      value_json)>>

EdgePropertyManager_delete_steps(h, edge, name) ==
    LET key == EdgePropertyManager_key(edge, name)
        old_value == Tree_get(h.edge_properties, key)
    IN  <<Step("get", "edge_properties", key, <<>>),
          Step("remove", "edge_properties", key, <<>>)>>
            \o (IF old_value # None
                THEN <<Step("remove", "edge_property_values",
                            EdgePropertyManager_key_value_index(
                                edge, from_slice(old_value[1]), name), <<>>)>>
                ELSE <<>>)

\* set writing the two range entries first and the edges key last
EdgeManager_set_steps_ranges_first(edge) ==
    LET r == reverse_edge(edge)
    IN  <<Step("insert", "edge_ranges",
               EdgeRangeManager_key(edge.outbound_id, edge.t, edge.inbound_id), <<>>),
          Step("insert", "reversed_edge_ranges",
               EdgeRangeManager_key(r.outbound_id, r.t, r.inbound_id), <<>>),
          Step("insert", "edges", EdgeManager_key(edge), <<>>)>>

EdgeManager_set_steps(edge) ==
    LET r == reverse_edge(edge)
    IN  <<Step("insert", "edges", EdgeManager_key(edge), <<>>),
          Step("insert", "edge_ranges",
               EdgeRangeManager_key(edge.outbound_id, edge.t, edge.inbound_id), <<>>),
          Step("insert", "reversed_edge_ranges",
               EdgeRangeManager_key(r.outbound_id, r.t, r.inbound_id), <<>>)>>

\* the loop of EdgeManager::delete over the properties of the edge, from
\* the read of the next item on: the item is read from h and deleted, then
\* the loop goes on; after is the key of the item read before
EdgeManager_delete_properties_steps(h, edge, after) ==
    LET items == AfterKey(EdgePropertyManager_iterate_for_owner(h, edge),
                          LAMBDA item : EdgePropertyManager_key(item[1][1], item[1][2]),
                          after)
    IN  <<Scan("edge_properties", FALSE, 0)>>
            \o (IF items = <<>> THEN <<>>
                ELSE <<Defer("EdgePropertyManager_delete",
                             <<items[1][1][1], items[1][1][2]>>),
                       Defer("EdgeManager_delete_properties",
                             <<edge, EdgePropertyManager_key(items[1][1][1],
                                                             items[1][1][2])>>)>>)

EdgeManager_delete_steps(edge) ==
    LET r == reverse_edge(edge)
    IN  <<Step("remove", "edges", EdgeManager_key(edge), <<>>),
          Step("remove", "edge_ranges",
               EdgeRangeManager_key(edge.outbound_id, edge.t, edge.inbound_id), <<>>),
          Step("remove", "reversed_edge_ranges",
               EdgeRangeManager_key(r.outbound_id, r.t, r.inbound_id), <<>>),
          Defer("EdgeManager_delete_properties", <<edge, <<>>>>)>>

\* the three loops of VertexManager::delete, each from the read of its next
\* item on
VertexManager_delete_properties_steps(h, id, after) ==
    LET items == AfterKey(VertexPropertyManager_iterate_for_owner(h, id),
                          LAMBDA item : VertexPropertyManager_key(item[1][1], item[1][2]),
                          after)
    IN  <<Scan("vertex_properties", FALSE, 0)>>
            \o (IF items = <<>> THEN <<>>
                ELSE <<Defer("VertexPropertyManager_delete",
                             <<items[1][1][1], items[1][1][2]>>),
                       Defer("VertexManager_delete_properties",
                             <<id, VertexPropertyManager_key(items[1][1][1],
                                                             items[1][1][2])>>)>>)

\* the loop over edge_ranges, or over reversed_edge_ranges, where the first
\* id of an item is the inbound end
VertexManager_delete_edges_steps(h, id, reversed, after) ==
    LET tree == IF reversed THEN "reversed_edge_ranges" ELSE "edge_ranges"
        items == AfterKey(EdgeRangeManager_iterate_for_owner(h[tree], id),
                          LAMBDA item : EdgeRangeManager_key(item[1], item[2], item[3]),
                          after)
    IN  IF items = <<>> THEN <<Scan(tree, TRUE, 0)>>
        ELSE <<Scan(tree, TRUE, 2),
               Defer("EdgeManager_delete",
                     <<IF reversed
                       THEN Edge(items[1][3], items[1][2], items[1][1])
                       ELSE Edge(items[1][1], items[1][2], items[1][3])>>),
               Defer("VertexManager_delete_edges",
                     <<id, reversed,
                       EdgeRangeManager_key(items[1][1], items[1][2], items[1][3])>>)>>

VertexManager_delete_steps(id) ==
    <<Step("remove", "db", VertexManager_key(id), <<>>),
      Defer("VertexManager_delete_properties", <<id, <<>>>>),
      Defer("VertexManager_delete_edges", <<id, FALSE, <<>>>>),
      Defer("VertexManager_delete_edges", <<id, TRUE, <<>>>>)>>

\* apply with the reversed range batch applied first and the edges batch last
IndraSledBatch_apply_steps_reversed_first(b) ==
    <<Step("apply_batch", "db", <<>>, b.vertex_creation_batch),
      Step("apply_batch", "reversed_edge_ranges", <<>>, b.edge_range_rev_creation_batch),
      Step("apply_batch", "edge_ranges", <<>>, b.edge_range_creation_batch),
      Step("apply_batch", "edges", <<>>, b.edge_creation_batch)>>

IndraSledBatch_apply_steps(b) ==
    <<Step("apply_batch", "db", <<>>, b.vertex_creation_batch),
      Step("apply_batch", "edges", <<>>, b.edge_creation_batch),
      Step("apply_batch", "edge_ranges", <<>>, b.edge_range_creation_batch),
      Step("apply_batch", "reversed_edge_ranges", <<>>, b.edge_range_rev_creation_batch)>>

create_vertex_steps(h, vertex) ==
    LET key == VertexManager_key(vertex.id)
    IN  <<Step("get", "db", key, <<>>)>>
            \o (IF Tree_contains_key(h.db, key) THEN <<>>
                ELSE <<Step("insert", "db", key, IdentifierComponent(vertex.t))>>)

create_edge_steps(h, edge) ==
    <<Step("get", "db", VertexManager_key(edge.outbound_id), <<>>),
      Step("get", "db", VertexManager_key(edge.inbound_id), <<>>)>>
        \o (IF ~VertexManager_exists(h, edge.outbound_id)
                  \/ ~VertexManager_exists(h, edge.inbound_id)
            THEN <<>> ELSE EdgeManager_set_steps(edge))

delete_vertices_steps(vertices) ==
    [i \in 1..Len(vertices) |-> Defer("VertexManager_delete", <<vertices[i].id>>)]

\* one turn of the loop of delete_edges
delete_edges_item_steps(h, edge) ==
    <<Step("get", "db", VertexManager_key(edge.outbound_id), <<>>)>>
        \o (IF VertexManager_get(h, edge.outbound_id) # None
            THEN EdgeManager_delete_steps(edge) ELSE <<>>)

delete_edges_steps(es) ==
    [i \in 1..Len(es) |-> Defer("delete_edges_item", <<es[i]>>)]

set_vertex_properties_steps(vertices, name, value) ==
    [i \in 1..Len(vertices) |->
        Defer("VertexPropertyManager_set", <<vertices[i], name, value>>)]

delete_vertex_properties_steps(props) ==
    [i \in 1..Len(props) |->
        Defer("VertexPropertyManager_delete", <<props[i][1], props[i][2]>>)]

bulk_insert_steps(items) ==
    LET vertex_props == bulk_insert_props(items, "VertexProperty")
        edge_props == bulk_insert_props(items, "EdgeProperty")
    IN  IndraSledBatch_apply_steps(bulk_insert_batch(IndraSledBatch_default, items))
            \o [i \in 1..Len(vertex_props) |->
                   Defer("VertexPropertyManager_set",
                         <<vertex_props[i].id, vertex_props[i].p, vertex_props[i].v>>)]
            \o [i \in 1..Len(edge_props) |->
                   Defer("EdgePropertyManager_set",
                         <<edge_props[i].e, edge_props[i].p, edge_props[i].v>>)]
            \o <<Step("sync", "metadata", <<>>, <<>>)>>

index_property_steps(name) == <<Step("add_index", "metadata", name, <<>>)>>

\* the steps of a function that starts on the holder h
Unfold(h, c) ==
    LET a == c.key
    IN  CASE c.tree = "VertexPropertyManager_set" ->
                 VertexPropertyManager_set_steps(h, a[1], a[2], a[3])
          [] c.tree = "VertexPropertyManager_delete" ->
                 VertexPropertyManager_delete_steps(h, a[1], a[2])
          [] c.tree = "EdgePropertyManager_set" ->
                 EdgePropertyManager_set_steps(h, a[1], a[2], a[3])
          [] c.tree = "EdgePropertyManager_delete" ->
                 EdgePropertyManager_delete_steps(h, a[1], a[2])
          [] c.tree = "EdgeManager_delete" -> EdgeManager_delete_steps(a[1])
          [] c.tree = "EdgeManager_delete_properties" ->
                 EdgeManager_delete_properties_steps(h, a[1], a[2])
          [] c.tree = "VertexManager_delete" -> VertexManager_delete_steps(a[1])
          [] c.tree = "VertexManager_delete_properties" ->
                 VertexManager_delete_properties_steps(h, a[1], a[2])
          [] c.tree = "VertexManager_delete_edges" ->
                 VertexManager_delete_edges_steps(h, a[1], a[2], a[3])
          [] c.tree = "delete_edges_item" -> delete_edges_item_steps(h, a[1])
          [] c.tree = "create_vertex" -> create_vertex_steps(h, a[1])
          [] c.tree = "create_edge" -> create_edge_steps(h, a[1])
          [] c.tree = "delete_vertices" -> delete_vertices_steps(a[1])
          [] c.tree = "delete_edges" -> delete_edges_steps(a[1])
          [] c.tree = "set_vertex_properties" ->
                 set_vertex_properties_steps(a[1], a[2], a[3])
          [] c.tree = "bulk_insert" -> bulk_insert_steps(a[1])
          [] c.tree = "index_property" -> index_property_steps(a[1])
          [] c.tree = "sync" -> <<Step("sync", "metadata", <<>>, <<>>)>>

\* what is left to do, unfolded until a storage step comes first
RECURSIVE Started(_, _)
Started(h, left) ==
    IF left = <<>> \/ left[1].op # "call" THEN left
    ELSE Started(h, Unfold(h, left[1]) \o Tail(left))

\* the calls of SpecSteps
StepScope ==
    [vertices |-> {Vertex(1, TypeP), Vertex(2, TypeP)},
     edges |-> {E12, E21},
     owners |-> {1},
     names |-> {NameB},
     values |-> JsonValues,
     bulk |-> {<<BulkVertex(Vertex(1, TypeP)), BulkVertex(Vertex(2, TypeP)),
                 BulkEdge(E12), BulkEdgeProperty(E12, NameB, 30),
                 BulkVertexProperty(2, NameB, 31)>>}]

Becomes(h) ==
    /\ db' = h.db
    /\ edges' = h.edges
    /\ edge_ranges' = h.edge_ranges
    /\ reversed_edge_ranges' = h.reversed_edge_ranges
    /\ vertex_properties' = h.vertex_properties
    /\ vertex_property_values' = h.vertex_property_values
    /\ edge_properties' = h.edge_properties
    /\ edge_property_values' = h.edge_property_values
    /\ metadata' = h.metadata
    /\ indexed_properties' = h.indexed_properties

\* no call of the run was cut short by a storage error or a stop so far
Undisturbed == IF last.op = "none" THEN TRUE ELSE last.ret = "Ok" /\ prev.op = "none"

\* the run goes on after the one call that was cut short: a create_edge or a
\* bulk_insert that was cut is followed by any calls, a delete_vertices that
\* was cut by the same delete_vertices once more
Resumes(op, args) ==
    IF Undisturbed THEN FALSE
    ELSE IF prev.op = "resumed"
         THEN last.ret = "Ok" /\ prev.args[1] \in {"create_edge", "bulk_insert"}
         ELSE \/ last.op \in {"create_edge", "bulk_insert"}
              \/ last.op = "delete_vertices" /\ op = last.op /\ args = last.args

\* the call returns ret when it has nothing left to do
Returns(left, ret) == IF left = <<>> THEN [last EXCEPT !.ret = ret] ELSE last

\* a call starts when none is running: a run has at most one storage error
\* or stop, and the calls after it are whole; pre is the holder the call
\* starts from, and prev says which call was cut when the run goes on
Begin(op, args, steps) ==
    /\ pending = <<>>
    /\ Undisturbed \/ Resumes(op, args)
    /\ \E left \in {Started(Holder, steps)} :
          /\ pending' = left
          /\ last' = Call(op, args, IF left = <<>> THEN "Ok" ELSE "Running")
    /\ pre' = Holder
    /\ prev' = IF Undisturbed THEN NoCall
               ELSE IF prev.op = "resumed" THEN prev
               ELSE Call("resumed", <<last.op>>, last.ret)
    /\ UNCHANGED <<trees, indexed_properties, txs>>

\* the next step of the running call succeeds
StepOk ==
    /\ pending # <<>>
    /\ \E h \in {Effect(Holder, Head(pending))} :
          /\ Becomes(h)
          /\ \E left \in {Started(h, Tail(pending))} :
                /\ pending' = left
                /\ last' = Returns(left, "Ok")
    /\ UNCHANGED <<pre, prev, txs>>

\* the next step fails with a storage error, the first of the call: prev
\* records the step and the holder at that moment.  The error of a read
\* inside take_while_prefixed ends the scan and its loop, and the call goes
\* on after the loop; every other error is returned through ? at once
StepErr ==
    /\ pending # <<>>
    /\ prev.op = "none"
    /\ prev' = Call("storage_error", <<Head(pending)>>, Holder)
    /\ IF ErrEndsScan(Head(pending))
       THEN \E left \in {Started(Holder,
                                 SubSeq(pending, 2 + Head(pending).skip, Len(pending)))} :
                /\ pending' = left
                /\ last' = Returns(left, "Ok")
       ELSE /\ pending' = <<>>
            /\ last' = [last EXCEPT !.ret = "Err"]
    /\ UNCHANGED <<trees, indexed_properties, pre, txs>>

\* the process stops between two steps and the datastore is opened again
Crash ==
    /\ pending # <<>>
    /\ prev.op # "resumed"
    /\ pending' = <<>>
    /\ last' = [last EXCEPT !.ret = "Crashed"]
    /\ Becomes(MetaDataManager_new(Holder))
    /\ UNCHANGED <<pre, prev, txs>>

NextSteps ==
    \/ \E vertex \in StepScope.vertices :
          Begin("create_vertex", <<vertex>>, create_vertex_steps(Holder, vertex))
    \/ \E edge \in StepScope.edges :
          Begin("create_edge", <<edge>>, create_edge_steps(Holder, edge))
    \/ \E vertices \in Singles(StepScope.vertices) :
          Begin("delete_vertices", <<vertices>>, delete_vertices_steps(vertices))
    \/ \E es \in Singles(StepScope.edges) :
          Begin("delete_edges", <<es>>, delete_edges_steps(es))
    \/ \E vertices \in Singles(StepScope.owners), name \in StepScope.names,
          value \in StepScope.values :
          Begin("set_vertex_properties", <<vertices, name, value>>,
                set_vertex_properties_steps(vertices, name, value))
    \/ \E props \in Singles(StepScope.owners \X StepScope.names) :
          Begin("delete_vertex_properties", <<props>>,
                delete_vertex_properties_steps(props))
    \/ \E items \in StepScope.bulk :
          Begin("bulk_insert", <<items>>, bulk_insert_steps(items))
    \/ \E name \in StepScope.names :
          Begin("index_property", <<name>>, index_property_steps(name))
    \/ StepOk
    \/ StepErr
    \/ Crash

SpecSteps == Init /\ [][NextSteps]_vars

\* a call that returned Ok with no storage error left the holder that the
\* call taken as one step leaves
StepsMatchCalls ==
    (last.op # "none" /\ prev.op = "none" /\ pending = <<>>) =>
        (last.ret = "Ok" =>
            Holder =
                CASE last.op = "create_vertex" -> create_vertex(pre, last.args[1]).h
                  [] last.op = "create_edge" -> create_edge(pre, last.args[1]).h
                  [] last.op = "delete_vertices" -> delete_vertices(pre, last.args[1])
                  [] last.op = "delete_edges" -> delete_edges(pre, last.args[1])
                  [] last.op = "set_vertex_properties" ->
                         set_vertex_properties(pre, last.args[1], last.args[2], last.args[3])
                  [] last.op = "delete_vertex_properties" ->
                         delete_vertex_properties(pre, last.args[1])
                  [] last.op = "bulk_insert" -> bulk_insert(pre, last.args[1])
                  [] last.op = "index_property" -> index_property(pre, last.args[1]))

(***************************************************************************)
(* Several transactions on one holder.  The trees are shared; every        *)
(* transaction owns its MetaDataManager, whose in-memory set is filled     *)
(* from the metadata tree when the transaction is opened.  The storage     *)
(* steps of the calls of different transactions interleave in any order.   *)
(* A function of a call is unfolded when its first step is made, on the    *)
(* trees of that moment: what the function reads first it reads then.      *)
(***************************************************************************)
\* the holder as transaction t has it: the shared trees and its own set
HolderOf(t) == [Holder EXCEPT !.indexed_properties = txs[t].indexed_properties]

\* a call of a transaction; writes counts the writing steps it has made
TxCall(op, args) == [op |-> op, args |-> args, ret |-> "Running", writes |-> 0]

\* the holder after the call taken whole
Whole(h, c) ==
    CASE c.op = "create_vertex" -> create_vertex(h, c.args[1]).h
      [] c.op = "create_edge" -> create_edge(h, c.args[1]).h
      [] c.op = "set_vertex_properties" ->
             set_vertex_properties(h, c.args[1], c.args[2], c.args[3])

\* the calls of SpecRace: the store is prepared by whole calls, then each of
\* the two transactions makes one call
RaceScope ==
    [prepare |-> {TxCall("create_vertex", <<Vertex(1, TypeP)>>),
                  TxCall("create_vertex", <<Vertex(2, TypeP)>>),
                  TxCall("create_edge", <<E12>>),
                  TxCall("set_vertex_properties", <<<<1>>, NameB, 30>>)},
     calls |-> <<{TxCall("create_edge", <<E12>>),
                  TxCall("create_vertex", <<Vertex(1, TypeP)>>),
                  TxCall("set_vertex_properties", <<<<1>>, NameB, 30>>)},
                 {TxCall("delete_vertices", <<<<Vertex(1, TypeP)>>>>),
                  TxCall("delete_vertices", <<<<Vertex(2, TypeP)>>>>),
                  TxCall("delete_edges", <<<<E12>>>>),
                  TxCall("create_vertex", <<Vertex(1, TypeQ)>>),
                  TxCall("set_vertex_properties", <<<<1>>, NameB, 31>>)}>>,
     max_calls |-> 1]

\* the calls of SpecRegistry: each transaction makes up to two calls
RegistryScope ==
    [calls |-> [t \in Transactions |->
                   {TxCall("index_property", <<NameB>>),
                    TxCall("index_property", <<NameAA>>),
                    TxCall("sync", <<>>),
                    TxCall("bulk_insert", <<<<BulkVertexProperty(1, NameB, 30)>>>>),
                    TxCall("set_vertex_properties", <<<<1>>, NameAA, 31>>)}],
     max_calls |-> 2]

\* no transaction has made a call
NoneCalled == \A t \in Transactions : txs[t].calls = <<>>

\* before the transactions start, a whole call changes the store
Prepare(scope) ==
    /\ NoneCalled
    /\ \E c \in scope.prepare : Becomes(Whole(Holder, c))
    /\ UNCHANGED <<pre, last, prev, pending, txs>>

\* transaction t is opened anew: MetaDataManager::new loads its set
TxOpen(t) ==
    /\ txs[t].pending = <<>>
    /\ txs[t].indexed_properties # MetaDataManager_load(metadata)
    /\ txs' = [txs EXCEPT ![t].indexed_properties = MetaDataManager_load(metadata)]
    /\ UNCHANGED <<trees, indexed_properties, pre, last, prev, pending>>

\* the call after one more step, with left still to do
Stepped(c, s, left) ==
    [c EXCEPT !.ret = IF left = <<>> THEN "Ok" ELSE "Running",
              !.writes = IF s.op \in {"insert", "remove", "apply_batch"} THEN @ + 1 ELSE @]

\* transaction t starts a call when it has none running
TxBegin(scope, t) ==
    /\ txs[t].pending = <<>>
    /\ Len(txs[t].calls) < scope.max_calls
    /\ \E c \in scope.calls[t] :
          txs' = [txs EXCEPT ![t].pending = <<Defer(c.op, c.args)>>,
                             ![t].calls = Append(@, c)]
    /\ UNCHANGED <<trees, indexed_properties, pre, last, prev, pending>>

\* the next step of the running call of transaction t
TxStep(t) ==
    /\ txs[t].pending # <<>>
    /\ \E left \in {Started(HolderOf(t), txs[t].pending)} :
          \E h \in {Effect(HolderOf(t), Head(left))} :
              /\ WithinBounds(h)
              /\ db' = h.db
              /\ edges' = h.edges
              /\ edge_ranges' = h.edge_ranges
              /\ reversed_edge_ranges' = h.reversed_edge_ranges
              /\ vertex_properties' = h.vertex_properties
              /\ vertex_property_values' = h.vertex_property_values
              /\ edge_properties' = h.edge_properties
              /\ edge_property_values' = h.edge_property_values
              /\ metadata' = h.metadata
              /\ txs' = [txs EXCEPT
                            ![t].indexed_properties = h.indexed_properties,
                            ![t].pending = Tail(left),
                            ![t].calls[Len(txs[t].calls)] =
                                Stepped(@, Head(left), Tail(left))]
    /\ UNCHANGED <<indexed_properties, pre, last, prev, pending>>

NextRace ==
    \/ Prepare(RaceScope)
    \/ \E t \in Transactions : TxBegin(RaceScope, t)
    \/ \E t \in Transactions : TxStep(t)

SpecRace == Init /\ [][NextRace]_vars

NextRegistry ==
    \/ \E t \in Transactions : TxOpen(t)
    \/ \E t \in Transactions : TxBegin(RegistryScope, t)
    \/ \E t \in Transactions : TxStep(t)

SpecRegistry == Init /\ [][NextRegistry]_vars

(***************************************************************************)
(* specific_edges read by read.  The call asks edge_ranges for each edge   *)
(* of its input in turn and gathers the edges it found into a Vec before   *)
(* it returns; each read succeeds or fails with a storage error.  last.ret *)
(* is what the call gives back: the result of the call and the items of    *)
(* the iterator, each Ok(edge) or Err.  prev gathers the edges whose read  *)
(* failed.                                                                 *)
(***************************************************************************)
LookupScope ==
    [vertices |-> {Vertex(1, TypeP), Vertex(2, TypeP)},
     edges |-> {E12, E21},
     edge_lists |-> {<<E12>>, <<E21>>, <<E12, E21>>, <<E21, E12, E21>>}]

\* the reads of the filter of specific_edges, one per input edge
specific_edges_steps(es) ==
    [i \in 1..Len(es) |->
        Step("contains_key", "edge_ranges",
             EdgeRangeManager_key(es[i].outbound_id, es[i].t, es[i].inbound_id), es[i])]

SpecificEdgesBegin(scope) ==
    \E es \in scope.edge_lists :
        /\ pending = <<>>
        /\ last.op = "none"
        /\ pending' = specific_edges_steps(es)
        /\ last' = Call("specific_edges", <<es>>, [result |-> "Ok", items |-> <<>>])
        /\ pre' = Holder
        /\ prev' = NoCall
        /\ UNCHANGED <<trees, indexed_properties, txs>>

\* contains returned Ok(r): the filter keeps the edge when r is true, and
\* map(Ok) makes an Ok item of it
ContainsOk ==
    /\ pending # <<>>
    /\ Head(pending).op = "contains_key"
    /\ LET s == Head(pending)
           r == Tree_contains_key(Holder[s.tree], s.key)
       IN  last' = [last EXCEPT
                       !.ret.items = IF r THEN Append(@, <<"Ok", s.value>>) ELSE @]
    /\ pending' = Tail(pending)
    /\ UNCHANGED <<trees, indexed_properties, pre, prev, txs>>

\* contains returned Err: the filter answers false for the edge and goes on
ContainsErr ==
    /\ pending # <<>>
    /\ Head(pending).op = "contains_key"
    /\ prev' = Call("storage_error", Append(prev.args, Head(pending).value), TRUE)
    /\ pending' = Tail(pending)
    /\ UNCHANGED <<trees, indexed_properties, pre, last, txs>>

NextLookup ==
    \/ CreateVertex(LookupScope)
    \/ CreateEdge(LookupScope)
    \/ SpecificEdgesBegin(LookupScope)
    \/ ContainsOk
    \/ ContainsErr

SpecLookup == Init /\ [][NextLookup]_vars

(***************************************************************************)
(* What the claims speak of.                                               *)
(***************************************************************************)
\* the ids of a list of vertices, and the elements of a list
IdsOf(vertices) == {vertices[i].id : i \in 1..Len(vertices)}
Elements(list) == {list[i] : i \in 1..Len(list)}

InEdges(h, e) == Tree_contains_key(h.edges, EdgeManager_key(e))
InRanges(h, e) == EdgeRangeManager_contains(h.edge_ranges, e)
InReversed(h, e) == EdgeRangeManager_contains(h.reversed_edge_ranges, reverse_edge(e))
Incident(e, v) == e.outbound_id = v \/ e.inbound_id = v

\* the edges with an entry in one of the three edge trees
StoredEdges(h) == {e \in AllEdges : InEdges(h, e) \/ InRanges(h, e) \/ InReversed(h, e)}

\* the Uuids a key of each tree carries
UuidsOfEdgeKey(k) == {read_uuid(k, 1), read_uuid(k, after_identifier(k, UuidLen + 1))}
UuidsOfEdgeIndexKey(k) ==
    LET e == EdgePropertyManager_read_key_value_index(k)
    IN  {e.outbound_id, e.inbound_id}

\* the keys of the holder that carry the Uuid v, as <<tree, key>>
KeysWith(h, v) ==
    {<<"db", k>> : k \in {x \in DOMAIN h.db : read_uuid(x, 1) = v}}
        \cup {<<"edges", k>> : k \in {x \in DOMAIN h.edges : v \in UuidsOfEdgeKey(x)}}
        \cup {<<"edge_ranges", k>> :
                 k \in {x \in DOMAIN h.edge_ranges : v \in UuidsOfEdgeKey(x)}}
        \cup {<<"reversed_edge_ranges", k>> :
                 k \in {x \in DOMAIN h.reversed_edge_ranges : v \in UuidsOfEdgeKey(x)}}
        \cup {<<"vertex_properties", k>> :
                 k \in {x \in DOMAIN h.vertex_properties : read_uuid(x, 1) = v}}
        \cup {<<"vertex_property_values", k>> :
                 k \in {x \in DOMAIN h.vertex_property_values :
                           VertexPropertyManager_read_key_value_index(x) = v}}
        \cup {<<"edge_properties", k>> :
                 k \in {x \in DOMAIN h.edge_properties : v \in UuidsOfEdgeKey(x)}}
        \cup {<<"edge_property_values", k>> :
                 k \in {x \in DOMAIN h.edge_property_values : v \in UuidsOfEdgeIndexKey(x)}}

\* the value-index keys of the edge tree owned by the edge e
EdgeIndexKeysOf(h, e) ==
    {k \in DOMAIN h.edge_property_values : EdgePropertyManager_read_key_value_index(k) = e}

(***************************************************************************)
(* C1.  After any sequence of completed calls of one transaction, an edge  *)
(* (o, t, i) has its key in edges iff (o, t, i) is in edge_ranges iff      *)
(* (i, t, o) is in reversed_edge_ranges, and the three trees hold no other *)
(* key.                                                                    *)
(***************************************************************************)
C1_EdgeTreesAgree ==
    /\ \A e \in AllEdges :
          /\ InEdges(Holder, e) <=> InRanges(Holder, e)
          /\ InRanges(Holder, e) <=> InReversed(Holder, e)
    /\ DOMAIN edges = {EdgeManager_key(e) : e \in StoredEdges(Holder)}
    /\ DOMAIN edge_ranges = DOMAIN edges
    /\ Cardinality(DOMAIN reversed_edge_ranges) = Cardinality(DOMAIN edges)

\* a vertex deletion that took one of two edges away and left the other
C1_Witness ==
    /\ last.op = "delete_vertices"
    /\ Cardinality(StoredEdges(pre)) = 2
    /\ \E e \in AllEdges :
          /\ StoredEdges(Holder) = {e}
          /\ InEdges(Holder, e) /\ InRanges(Holder, e) /\ InReversed(Holder, e)

(***************************************************************************)
(* C2.  After delete_vertices(vs) has returned, for every v of vs:         *)
(* all_edges yields no edge with outbound or inbound v,                    *)
(* all_vertex_properties_for_vertex(v) is empty, and                       *)
(* all_edge_properties_for_edge(e) is empty for every edge e stored before *)
(* the call with v as an endpoint.                                         *)
(***************************************************************************)
C2_Cascade ==
    last.op = "delete_vertices" =>
        \A v \in IdsOf(last.args[1]) :
            /\ \A e \in Elements(all_edges(Holder)) : ~Incident(e, v)
            /\ \A e \in AllEdges : Incident(e, v) => ~InRanges(Holder, e)
            /\ all_vertex_properties_for_vertex(Holder, v) = <<>>
            /\ \A e \in StoredEdges(pre) :
                  Incident(e, v) => all_edge_properties_for_edge(Holder, e) = <<>>

\* the vertex deleted had a property and was the inbound end of an edge
\* with a property
C2_Witness ==
    /\ last.op = "delete_vertices"
    /\ \E v \in IdsOf(last.args[1]), e \in StoredEdges(pre) :
          /\ e.inbound_id = v /\ e.outbound_id # v
          /\ all_edge_properties_for_edge(pre, e) # <<>>
          /\ all_vertex_properties_for_vertex(pre, v) # <<>>
          /\ VertexManager_exists(pre, v)

(***************************************************************************)
(* C3.  After delete_vertices(vs) has returned, whatever calls came        *)
(* before, no key of any tree carries a v of vs, as owner, as outbound or  *)
(* as inbound end.                                                         *)
(***************************************************************************)
C3_NoKeyOfDeletedVertex ==
    last.op = "delete_vertices" =>
        \A v \in IdsOf(last.args[1]) : KeysWith(Holder, v) = {}

(***************************************************************************)
(* C4.  After delete_edges(es) has returned, whatever calls came before,   *)
(* every e of es has no key in edges, no entry in edge_ranges or           *)
(* reversed_edge_ranges, no property in edge_properties and no entry in    *)
(* edge_property_values.                                                   *)
(***************************************************************************)
C4_EdgeGone ==
    last.op = "delete_edges" =>
        \A e \in Elements(last.args[1]) :
            /\ ~InEdges(Holder, e) /\ ~InRanges(Holder, e) /\ ~InReversed(Holder, e)
            /\ all_edge_properties_for_edge(Holder, e) = <<>>
            /\ EdgeIndexKeysOf(Holder, e) = {}

(***************************************************************************)
(* C5.  create_edge(e) returns false and leaves every tree as it was       *)
(* (edge_count and all_edges too) when the outbound or the inbound vertex  *)
(* of e is absent; it returns true, with e in edges, edge_ranges and       *)
(* reversed_edge_ranges, when both are there.                              *)
(***************************************************************************)
C5_CreateEdge ==
    last.op = "create_edge" =>
        LET e == last.args[1]
        IN  IF ~VertexManager_exists(pre, e.outbound_id)
                   \/ ~VertexManager_exists(pre, e.inbound_id)
            THEN /\ last.ret = FALSE
                 /\ Holder = pre
                 /\ edge_count(Holder) = edge_count(pre)
                 /\ all_edges(Holder) = all_edges(pre)
            ELSE /\ last.ret = TRUE
                 /\ InEdges(Holder, e) /\ InRanges(Holder, e) /\ InReversed(Holder, e)

\* one edge stored, and create_edge refused for a missing inbound vertex
C5_Witness ==
    /\ last.op = "create_edge"
    /\ last.ret = FALSE
    /\ VertexManager_exists(pre, last.args[1].outbound_id)
    /\ edge_count(Holder) = 1

(***************************************************************************)
(* C6.  create_vertex returns true exactly when the id was absent; called  *)
(* again on the id right after a call that returned true, it returns false *)
(* and changes nothing: the label stays the first call's, whatever label   *)
(* the second carries, and vertex_count stays.                             *)
(***************************************************************************)
C6_CreateVertexTwice ==
    /\ last.op = "create_vertex" =>
          (last.ret <=> ~VertexManager_exists(pre, last.args[1]))
    /\ (/\ last.op = "create_vertex" /\ prev.op = "create_vertex"
        /\ prev.args[1] = last.args[1] /\ prev.ret = TRUE) =>
          /\ last.ret = FALSE
          /\ Holder = pre
          /\ VertexManager_get(Holder, last.args[1]) = Some(prev.args[2])
          /\ vertex_count(Holder) = vertex_count(pre)

\* the second call carried another label than the first
C6_Witness ==
    /\ last.op = "create_vertex" /\ prev.op = "create_vertex"
    /\ prev.args[1] = last.args[1] /\ prev.ret = TRUE
    /\ prev.args[2] # last.args[2]
    /\ last.ret = FALSE

(***************************************************************************)
(* C7.  After set_vertex_properties(os, n, x), vertex_property(o, n) is    *)
(* Some(x) for every o of os; and whenever a vertex o carries x under a    *)
(* name n that is indexed, be it indexed before the set or after it,       *)
(* vertex_ids_with_property(n) and vertex_ids_with_property_value(n, x)    *)
(* contain o.  The same for edges, with set_edge_properties,               *)
(* edge_property, edges_with_property and edges_with_property_value.       *)
(***************************************************************************)
C7_SetThenFound ==
    /\ last.op = "set_vertex_properties" =>
          \A o \in Elements(last.args[1][1]) :
              vertex_property(Holder, o, last.args[1][2]) = Some(last.args[2])
    /\ last.op = "set_edge_properties" =>
          \A e \in Elements(last.args[1][1]) :
              edge_property(Holder, e, last.args[1][2]) = Some(last.args[2])
    /\ \A n \in indexed_properties, x \in JsonValues :
          /\ \A o \in Uuids :
                vertex_property(Holder, o, n) = Some(x) =>
                    /\ o \in Elements(vertex_ids_with_property(Holder, n)[1])
                    /\ o \in Elements(vertex_ids_with_property_value(Holder, n, x)[1])
          /\ \A e \in AllEdges :
                edge_property(Holder, e, n) = Some(x) =>
                    /\ e \in Elements(edges_with_property(Holder, n)[1])
                    /\ e \in Elements(edges_with_property_value(Holder, n, x)[1])

\* the name was indexed after the vertex property was set
C7_Witness ==
    /\ last.op = "index_property"
    /\ last.args[1] \notin pre.indexed_properties
    /\ \E o \in Uuids, x \in JsonValues :
          /\ vertex_property(pre, o, last.args[1]) = Some(x)
          /\ o \in Elements(vertex_ids_with_property_value(Holder, last.args[1], x)[1])

(***************************************************************************)
(* C8.  When set_vertex_properties(os, n, y) overwrites a value x # y of   *)
(* o, the vertex value index has no key (n, x, o) afterwards and has the   *)
(* key (n, y, o); the scan by name and value x no longer yields o, and the *)
(* scan by name and value y yields it.  The same for edges.                *)
(***************************************************************************)
C8_Overwrite ==
    /\ last.op = "set_vertex_properties" =>
          \A o \in Elements(last.args[1][1]), x \in JsonValues :
              LET n == last.args[1][2]
                  y == last.args[2]
              IN  (vertex_property(pre, o, n) = Some(x) /\ x # y) =>
                      /\ ~Tree_contains_key(vertex_property_values,
                              VertexPropertyManager_key_value_index(o, x, n))
                      /\ Tree_contains_key(vertex_property_values,
                              VertexPropertyManager_key_value_index(o, y, n))
                      /\ o \notin Elements(
                             VertexPropertyManager_iterate_for_property_name_and_value(
                                 Holder, n, x))
                      /\ o \in Elements(
                             VertexPropertyManager_iterate_for_property_name_and_value(
                                 Holder, n, y))
    /\ last.op = "set_edge_properties" =>
          \A e \in Elements(last.args[1][1]), x \in JsonValues :
              LET n == last.args[1][2]
                  y == last.args[2]
              IN  (edge_property(pre, e, n) = Some(x) /\ x # y) =>
                      /\ ~Tree_contains_key(edge_property_values,
                              EdgePropertyManager_key_value_index(e, x, n))
                      /\ Tree_contains_key(edge_property_values,
                              EdgePropertyManager_key_value_index(e, y, n))
                      /\ e \notin Elements(
                             EdgePropertyManager_iterate_for_property_name_and_value(
                                 Holder, n, x))
                      /\ e \in Elements(
                             EdgePropertyManager_iterate_for_property_name_and_value(
                                 Holder, n, y))

\* an edge property of an indexed name overwritten with another value
C8_Witness ==
    /\ last.op = "set_edge_properties"
    /\ last.args[1][2] \in indexed_properties
    /\ \E e \in Elements(last.args[1][1]), x \in JsonValues :
          /\ x # last.args[2]
          /\ edge_property(pre, e, last.args[1][2]) = Some(x)
          /\ edges_with_property_value(Holder, last.args[1][2], x) = Some(<<>>)
          /\ edges_with_property_value(Holder, last.args[1][2], last.args[2]) = Some(<<e>>)

(***************************************************************************)
(* C9.  vertex_ids_with_property, vertex_ids_with_property_value,          *)
(* edges_with_property and edges_with_property_value return None exactly   *)
(* when the name is not indexed, and Some of a sequence, empty or not,     *)
(* when it is.                                                             *)
(***************************************************************************)
GatedQueries ==
    {"vertex_ids_with_property", "vertex_ids_with_property_value",
     "edges_with_property", "edges_with_property_value"}

C9_GatedQueries ==
    last.op \in GatedQueries =>
        /\ last.ret = None <=> last.args[1] \notin indexed_properties
        /\ last.args[1] \in indexed_properties => Len(last.ret) = 1

\* an indexed name no edge carries the value of: Some of the empty sequence
C9_Witness ==
    /\ last.op = "edges_with_property_value"
    /\ last.args[1] \in indexed_properties
    /\ last.ret = Some(<<>>)

(***************************************************************************)
(* C10.  The registry of indexed names is persisted: after                 *)
(* index_property(n), a MetaDataManager newly made on the same tree has    *)
(* is_indexed(n) true; after remove_index(n) it has is_indexed(n) false;   *)
(* the other names are reported as before, so that a name never added is   *)
(* reported false.                                                         *)
(***************************************************************************)
C10_RegistryPersisted ==
    /\ last.op = "index_property" =>
          MetaDataManager_is_indexed(MetaDataManager_new(Holder), last.args[1])
    /\ last.op = "remove_index" =>
          ~MetaDataManager_is_indexed(MetaDataManager_new(Holder), last.args[1])
    /\ last.op \in {"index_property", "remove_index"} =>
          \A n \in PropNames \ {last.args[1]} :
              MetaDataManager_is_indexed(MetaDataManager_new(Holder), n)
                  <=> MetaDataManager_is_indexed(MetaDataManager_new(pre), n)
    /\ last.op = "reopen" =>
          /\ indexed_properties = pre.indexed_properties
          /\ prev.op = "index_property" => prev.args[1] \in indexed_properties
          /\ prev.op = "remove_index" => prev.args[1] \notin indexed_properties
    /\ \A n \in PropNames :
          n \notin indexed_properties =>
              ~MetaDataManager_is_indexed(MetaDataManager_new(Holder), n)
    /\ ~MetaDataManager_is_indexed(MetaDataManager_new(Holder), TypeK)

\* a name indexed, the datastore opened again: the name is reported indexed
\* and another name is not
C10_Witness ==
    /\ prev.op = "index_property"
    /\ last.op = "reopen"
    /\ MetaDataManager_is_indexed(Holder, prev.args[1])
    /\ \E n \in PropNames : ~MetaDataManager_is_indexed(Holder, n)

(***************************************************************************)
(* C11.  After bulk_insert(items) has returned, every item shows: the id   *)
(* of a Vertex item is in the vertex tree; an Edge item is in edges,       *)
(* edge_ranges and reversed_edge_ranges, with or without its vertices; a   *)
(* VertexProperty or EdgeProperty item is read back by the point lookup    *)
(* and has its value-index entry, with or without its owner (of two items  *)
(* of one call that set the same property, the later is the one read).     *)
(***************************************************************************)
\* the item at i is the last of items to write what it writes
LastOfItsKind(items, i) ==
    \A j \in (i + 1)..Len(items) :
        \/ items[j].kind # items[i].kind
        \/ /\ items[i].kind = "VertexProperty"
           /\ <<items[j].id, items[j].p>> # <<items[i].id, items[i].p>>
        \/ /\ items[i].kind = "EdgeProperty"
           /\ <<items[j].e, items[j].p>> # <<items[i].e, items[i].p>>
        \/ items[i].kind = "Vertex" /\ items[j].v.id # items[i].v.id
        \/ items[i].kind = "Edge"

C11_BulkVisible ==
    last.op = "bulk_insert" =>
        \A i \in 1..Len(last.args[1]) :
            LET item == last.args[1][i]
            IN  CASE item.kind = "Vertex" ->
                         /\ VertexManager_exists(Holder, item.v.id)
                         /\ LastOfItsKind(last.args[1], i) =>
                                VertexManager_get(Holder, item.v.id) = Some(item.v.t)
                  [] item.kind = "Edge" ->
                         /\ InEdges(Holder, item.e)
                         /\ InRanges(Holder, item.e)
                         /\ InReversed(Holder, item.e)
                  [] item.kind = "VertexProperty" ->
                         LastOfItsKind(last.args[1], i) =>
                             /\ vertex_property(Holder, item.id, item.p) = Some(item.v)
                             /\ Tree_contains_key(vertex_property_values,
                                    VertexPropertyManager_key_value_index(
                                        item.id, item.v, item.p))
                  [] item.kind = "EdgeProperty" ->
                         LastOfItsKind(last.args[1], i) =>
                             /\ edge_property(Holder, item.e, item.p) = Some(item.v)
                             /\ Tree_contains_key(edge_property_values,
                                    EdgePropertyManager_key_value_index(
                                        item.e, item.v, item.p))

\* an edge and a property of it inserted with neither of its vertices there
C11_Witness ==
    /\ last.op = "bulk_insert"
    /\ \E i, j \in 1..Len(last.args[1]) :
          /\ last.args[1][i].kind = "Edge"
          /\ last.args[1][j].kind = "EdgeProperty"
          /\ last.args[1][j].e = last.args[1][i].e
          /\ ~VertexManager_exists(Holder, last.args[1][i].e.outbound_id)
          /\ ~VertexManager_exists(Holder, last.args[1][i].e.inbound_id)
          /\ InReversed(Holder, last.args[1][i].e)
          /\ edge_property(Holder, last.args[1][j].e, last.args[1][j].p)
                 = Some(last.args[1][j].v)

(***************************************************************************)
(* C16.  all_vertices yields every stored vertex once, in ascending byte   *)
(* order of the ids, with its stored label; range_vertices(offset) yields  *)
(* just the stored vertices whose id is offset or after it, in the same    *)
(* order; a vertex just created is yielded with the label of the call.     *)
(***************************************************************************)
StoredVertices(h, offset) ==
    {Vertex(id, VertexManager_get(h, id)[1]) :
        id \in {x \in Offsets : /\ VertexManager_exists(h, x)
                                /\ ~BytesLess(UuidComponent(x), UuidComponent(offset))}}

AscendingIds(vs) ==
    \A i, j \in 1..Len(vs) :
        i < j => BytesLess(UuidComponent(vs[i].id), UuidComponent(vs[j].id))

C16_VertexRanges ==
    /\ \E all \in {all_vertices(Holder)} :
          /\ Elements(all) = StoredVertices(Holder, 0)
          /\ AscendingIds(all)
          /\ Len(all) = vertex_count(Holder)
          /\ (last.op = "create_vertex" /\ last.ret = TRUE) =>
                Vertex(last.args[1], last.args[2]) \in Elements(all)
    /\ \A offset \in Offsets :
          \E range \in {range_vertices(Holder, offset)} :
              /\ Elements(range) = StoredVertices(Holder, offset)
              /\ AscendingIds(range)

\* two vertices stored, the range from the second id yields it alone
C16_Witness ==
    /\ last.op = "range_vertices"
    /\ last.args[1] = 2
    /\ Len(all_vertices(Holder)) = 2
    /\ \E t \in {TypeP, TypeQ} : last.ret = <<Vertex(2, t)>>

(***************************************************************************)
(* C17.  specific_vertices(ids) yields, in the order of ids and with a     *)
(* repeated id repeated, the vertices whose id is in the vertex tree; an   *)
(* absent id is skipped and the ids after it are still looked up.          *)
(***************************************************************************)
C17_SpecificVertices ==
    \A ids \in IdLists :
        LET kept == SelectSeq(ids, LAMBDA id : Tree_contains_key(db, UuidComponent(id)))
            got == specific_vertices(Holder, ids)
        IN  /\ Len(got) = Len(kept)
            /\ \A i \in 1..Len(kept) :
                  /\ got[i].id = kept[i]
                  /\ Some(got[i].t) = VertexManager_get(Holder, kept[i])

\* an absent id between two occurrences of a stored one
C17_Witness ==
    /\ last.op = "specific_vertices"
    /\ last.args[1] = <<2, 1, 2>>
    /\ ~VertexManager_exists(Holder, 1)
    /\ \E t \in {TypeP, TypeQ} : last.ret = <<Vertex(2, t), Vertex(2, t)>>

OwnPairsInOrder(pairs, lookup(_), before(_, _)) ==
    /\ Elements(pairs) = {<<n, v>> \in PropNames \X JsonValues : lookup(n) = Some(v)}
    /\ \A i, j \in 1..Len(pairs) : i < j => before(pairs[i][1], pairs[j][1])

PropertiesInOrder(before(_, _)) ==
    /\ \A id \in Uuids :
          OwnPairsInOrder(all_vertex_properties_for_vertex(Holder, id),
                          LAMBDA n : vertex_property(Holder, id, n), before)
    /\ \A e \in AllEdges :
          OwnPairsInOrder(all_edge_properties_for_edge(Holder, e),
                          LAMBDA n : edge_property(Holder, e, n), before)

\* C20 as stated: the pairs of the owner in ascending byte order of the names
C20_ByNameBytes == PropertiesInOrder(LAMBDA n1, n2 : BytesLess(n1, n2))

\* C20 amended: the pairs of the owner in ascending byte order of the
\* encoded names
C20_ByEncodedName ==
    PropertiesInOrder(LAMBDA n1, n2 :
                          BytesLess(IdentifierComponent(n1), IdentifierComponent(n2)))

\* a vertex read with both names set: the shorter name b comes before aa
C20_Witness ==
    /\ last.op = "all_vertex_properties_for_vertex"
    /\ Len(last.ret) = 2
    /\ last.ret[1][1] = NameB
    /\ last.ret[2][1] = NameAA

(***************************************************************************)
(* C12.  In every state from the start of a bulk_insert on, finished or    *)
(* not: an Edge item that the call put into reversed_edge_ranges is in     *)
(* edge_ranges, one that it put into edge_ranges is in edges, and when a   *)
(* property row or index entry of one of its property items is written,    *)
(* the four batches are applied: every Vertex item is in the vertex tree   *)
(* and every Edge item in the three edge trees.                            *)
(***************************************************************************)
ItemsOfKind(items, kind) == {items[i] : i \in {j \in 1..Len(items) : items[j].kind = kind}}

BatchesApplied(h, items) ==
    /\ \A item \in ItemsOfKind(items, "Vertex") : VertexManager_exists(h, item.v.id)
    /\ \A item \in ItemsOfKind(items, "Edge") :
          InEdges(h, item.e) /\ InRanges(h, item.e) /\ InReversed(h, item.e)

\* the keys of the property rows and index entries that the items write
PropertyKeys(items) ==
    [vertex_properties |->
         {VertexPropertyManager_key(item.id, item.p) :
              item \in ItemsOfKind(items, "VertexProperty")},
     vertex_property_values |->
         {VertexPropertyManager_key_value_index(item.id, item.v, item.p) :
              item \in ItemsOfKind(items, "VertexProperty")},
     edge_properties |->
         {EdgePropertyManager_key(item.e, item.p) :
              item \in ItemsOfKind(items, "EdgeProperty")},
     edge_property_values |->
         {EdgePropertyManager_key_value_index(item.e, item.v, item.p) :
              item \in ItemsOfKind(items, "EdgeProperty")}]

\* the call has written one of the keys of the tree
Written(tree, keys) ==
    \E k \in keys : Tree_get(Holder[tree], k) # Tree_get(pre[tree], k)

C12_BulkOrder ==
    last.op = "bulk_insert" =>
        /\ \A item \in ItemsOfKind(last.args[1], "Edge") :
              /\ (InReversed(Holder, item.e) /\ ~InReversed(pre, item.e))
                     => InRanges(Holder, item.e)
              /\ (InRanges(Holder, item.e) /\ ~InRanges(pre, item.e))
                     => InEdges(Holder, item.e)
        /\ (\E tree \in DOMAIN PropertyKeys(last.args[1]) :
                Written(tree, PropertyKeys(last.args[1])[tree]))
               => BatchesApplied(Holder, last.args[1])

\* a bulk_insert that has applied the edges batch and not yet the edge_ranges
\* batch, none of its properties written
C12_Witness ==
    /\ last.op = "bulk_insert"
    /\ last.ret = "Running"
    /\ \E item \in ItemsOfKind(last.args[1], "Edge") :
          /\ InEdges(Holder, item.e)
          /\ ~InEdges(pre, item.e)
          /\ ~InRanges(Holder, item.e)
    /\ ~Written("edge_properties", PropertyKeys(last.args[1]).edge_properties)

(***************************************************************************)
(* C13.  With no call running, whatever storage error or stop cut the last *)
(* call short: every owner that the by-name-and-value query yields for an  *)
(* indexed name n and a value x has the property n = x in the primary      *)
(* tree, and every owner that the by-name query yields for n has a         *)
(* property n.                                                             *)
(***************************************************************************)
\* every element of an answer Some(list) satisfies confirmed; None has none
AllConfirmed(answer, confirmed(_)) ==
    answer # None => \A o \in Elements(answer[1]) : confirmed(o)

C13_IndexConfirmed ==
    pending = <<>> =>
        \A n \in PropNames :
            /\ AllConfirmed(vertex_ids_with_property(Holder, n),
                            LAMBDA o : vertex_property(Holder, o, n) # None)
            /\ AllConfirmed(edges_with_property(Holder, n),
                            LAMBDA o : edge_property(Holder, o, n) # None)
            /\ \A x \in JsonValues :
                  /\ AllConfirmed(vertex_ids_with_property_value(Holder, n, x),
                                  LAMBDA o : vertex_property(Holder, o, n) = Some(x))
                  /\ AllConfirmed(edges_with_property_value(Holder, n, x),
                                  LAMBDA o : edge_property(Holder, o, n) = Some(x))

(***************************************************************************)
(* C14.  A storage error on the read of the next item of a scan of         *)
(* edge_ranges or reversed_edge_ranges reaches the consumer of the scan:   *)
(* the loop of the cascade passes every Err item on with ?, so the call    *)
(* that was reading returns Err.                                           *)
(***************************************************************************)
RangeScanFailed ==
    /\ prev.op = "storage_error"
    /\ prev.args[1].op = "next"
    /\ prev.args[1].tree \in {"edge_ranges", "reversed_edge_ranges"}

C14_ScanErrorDelivered == RangeScanFailed => last.ret = "Err"

(***************************************************************************)
(* C15.  After a storage error in a delete_vertices the call does not      *)
(* return Ok and writes nothing more: the holder stays as it was when the  *)
(* error came.                                                             *)
(***************************************************************************)
C15_CascadeStops ==
    (last.op = "delete_vertices" /\ prev.op = "storage_error") =>
        /\ last.ret # "Ok"
        /\ Holder = prev.ret

(***************************************************************************)
(* C18.  With no call running, whatever storage error or stop cut the last *)
(* call short: specific_edges(es) yields, in the order of es, the edges of *)
(* es whose key is in the edges tree.                                      *)
(***************************************************************************)
EdgeLists == {<<E12>>, <<E21>>, <<E12, E21>>, <<E21, E12, E21>>}

C18_SpecificEdges ==
    pending = <<>> =>
        \A es \in EdgeLists :
            specific_edges(Holder, es) = SelectSeq(es, LAMBDA e : InEdges(Holder, e))

(***************************************************************************)
(* C29.  After any sequence of whole, error-free calls of one transaction  *)
(* the value-index trees match the primaries: the entry (n, x, o) is in    *)
(* the value index of the vertex (of the edge) properties exactly when the *)
(* property tree stores x under (o, n), whether or not n is in the         *)
(* registry.                                                               *)
(***************************************************************************)
VertexIndexEntries(h) ==
    {VertexPropertyManager_key_value_index(o, x, n) :
        <<o, x, n>> \in {p \in Uuids \X JsonValues \X PropNames :
                            VertexPropertyManager_get(h, p[1], p[3]) = Some(p[2])}}

EdgeIndexEntries(h) ==
    {EdgePropertyManager_key_value_index(e, x, n) :
        <<e, x, n>> \in {p \in AllEdges \X JsonValues \X PropNames :
                            EdgePropertyManager_get(h, p[1], p[3]) = Some(p[2])}}

C29_IndexMatchesPrimary ==
    /\ DOMAIN vertex_property_values = VertexIndexEntries(Holder)
    /\ DOMAIN edge_property_values = EdgeIndexEntries(Holder)

\* a stored value was replaced by another while no name is in the registry
C29_Witness ==
    /\ last.op = "set_vertex_properties"
    /\ indexed_properties = {}
    /\ \E o \in Uuids, n \in PropNames :
          /\ VertexPropertyManager_get(pre, o, n) = Some(30)
          /\ VertexPropertyManager_get(Holder, o, n) = Some(31)
          /\ DOMAIN vertex_property_values
                 = {VertexPropertyManager_key_value_index(o, 31, n)}


(***************************************************************************)
(* C30.  After any sequence of whole create_vertex, create_edge,           *)
(* delete_vertices, delete_edges and property calls of one transaction,    *)
(* with no bulk_insert among them, every edge of the edges tree has its    *)
(* outbound and its inbound vertex in the vertex tree.                     *)
(***************************************************************************)
C30_NoDanglingEdge ==
    \A e \in AllEdges :
        InEdges(Holder, e) =>
            /\ VertexManager_exists(Holder, e.outbound_id)
            /\ VertexManager_exists(Holder, e.inbound_id)

\* a vertex with an edge out and an edge in was deleted, the other vertex
\* stays
C30_Witness ==
    /\ last.op = "delete_vertices"
    /\ VertexManager_exists(pre, 1)
    /\ InEdges(pre, E12)
    /\ InEdges(pre, E21)
    /\ ~VertexManager_exists(Holder, 1)
    /\ VertexManager_exists(Holder, 2)


(***************************************************************************)
(* C21.  When a delete_vertices([v]) was cut short by a stop or a storage  *)
(* error and the same delete_vertices([v]) is then run to its end, no key  *)
(* of any tree carries v: not as outbound end, not as inbound end, not as  *)
(* owner of a property.                                                    *)
(***************************************************************************)
RanAgain ==
    /\ last.op = "delete_vertices"
    /\ prev.op = "resumed"
    /\ prev.args[1] = "delete_vertices"
    /\ pending = <<>>

C21_RerunCleans ==
    RanAgain => \A v \in IdsOf(last.args[1]) : KeysWith(Holder, v) = {}


(***************************************************************************)
(* C22.  The edges tree leads on the way in: create_edge writes the edges  *)
(* key, then the forward range entry, then the reversed one, and           *)
(* bulk_insert applies its batches in that order.  So in every state of a  *)
(* run where a create_edge or a bulk_insert may be cut between two writes, *)
(* and no delete is cut, an edge with a forward or a reversed range entry  *)
(* has its key in the edges tree.                                          *)
(***************************************************************************)
\* no delete of the run is under way or was cut short
DeletesWhole ==
    /\ prev.op = "resumed" => prev.args[1] # "delete_vertices"
    /\ last.op \in {"delete_vertices", "delete_edges"} =>
           /\ pending = <<>>
           /\ last.ret = "Ok"
           /\ prev.op # "storage_error"

C22_EdgesTreeLeads ==
    DeletesWhole =>
        \A e \in AllEdges : (InRanges(Holder, e) \/ InReversed(Holder, e)) => InEdges(Holder, e)

\* a create_edge was cut after its second write, and calls were made since
C22_Witness ==
    /\ prev.op = "resumed"
    /\ prev.args[1] = "create_edge"
    /\ last.op # "create_edge"
    /\ \E e \in AllEdges : InEdges(Holder, e) /\ InRanges(Holder, e) /\ ~InReversed(Holder, e)


(***************************************************************************)
(* C23.  With two transactions open on the holder: once index_property(n)  *)
(* has returned Ok in one of them, n is in the persisted registry and      *)
(* stays there whatever the transactions call afterwards (index_property,  *)
(* sync and bulk_insert included; remove_index is never called).           *)
(***************************************************************************)
\* index_property(n) has returned Ok in some transaction
Registered(n) ==
    \E t \in Transactions : \E i \in 1..Len(txs[t].calls) :
        /\ txs[t].calls[i].op = "index_property"
        /\ txs[t].calls[i].args[1] = n
        /\ txs[t].calls[i].ret = "Ok"

C23_RegistrationKept ==
    \A n \in PropNames : Registered(n) => n \in MetaDataManager_load(metadata)

(***************************************************************************)
(* C24.  Once index_property(n) has returned Ok in a transaction, the      *)
(* queries by name and by name and value for n answer Some in every        *)
(* transaction on the holder, opened before the call or after it.          *)
(***************************************************************************)
C24_IndexedEverywhere ==
    \A n \in PropNames :
        Registered(n) =>
            \A t \in Transactions :
                /\ vertex_ids_with_property(HolderOf(t), n) # None
                /\ edges_with_property(HolderOf(t), n) # None
                /\ \A x \in JsonValues :
                      /\ vertex_ids_with_property_value(HolderOf(t), n, x) # None
                      /\ edges_with_property_value(HolderOf(t), n, x) # None


(***************************************************************************)
(* C25.  One transaction calls create_edge(e), another delete_vertices of  *)
(* an end v of e, their storage steps interleaved in any order.  When both *)
(* calls are over, no edge with an entry in edges, edge_ranges or          *)
(* reversed_edge_ranges has an end that is absent from the vertex tree.    *)
(***************************************************************************)
\* the one call of transaction t in a race, and both calls being over
CallOf(t) == txs[t].calls[1]
BothOver == \A t \in Transactions : txs[t].calls # <<>> /\ txs[t].pending = <<>>

Raced(op1, op2) == BothOver /\ CallOf(1).op = op1 /\ CallOf(2).op = op2

C25_NoDanglingAfterRace ==
    (/\ Raced("create_edge", "delete_vertices")
     /\ \E v \in IdsOf(CallOf(2).args[1]) : Incident(CallOf(1).args[1], v)) =>
        \A e \in StoredEdges(Holder) :
            /\ VertexManager_exists(Holder, e.outbound_id)
            /\ VertexManager_exists(Holder, e.inbound_id)

(***************************************************************************)
(* C26.  Two transactions call create_vertex with the same id, their steps *)
(* interleaved in any order: at most one of the calls returns true, and    *)
(* the label stored afterwards is the label of the call that returned      *)
(* true.                                                                   *)
(***************************************************************************)
\* VertexManager::create returns true after its insert, false without it
ReturnedTrue(t) == CallOf(t).writes > 0

C26_OneCreates ==
    (Raced("create_vertex", "create_vertex")
        /\ CallOf(1).args[1].id = CallOf(2).args[1].id) =>
        /\ ~(ReturnedTrue(1) /\ ReturnedTrue(2))
        /\ \A t \in Transactions :
              ReturnedTrue(t) =>
                  VertexManager_get(Holder, CallOf(t).args[1].id) = Some(CallOf(t).args[1].t)

(***************************************************************************)
(* C27.  Two transactions set the same property (o, n) to different        *)
(* values, their steps (read of the old value, remove of the old index     *)
(* entry, write of the row, write of the index entry) interleaved in any   *)
(* order.  When both are over the value index holds exactly one entry for  *)
(* (n, ., o), the entry of the value the property row stores.              *)
(***************************************************************************)
\* the value-index keys of the property n of the vertex o
VertexIndexKeysOf(h, o, n) ==
    {k \in DOMAIN h.vertex_property_values :
        \E x \in JsonValues : k = VertexPropertyManager_key_value_index(o, x, n)}

C27_OneIndexEntry ==
    (/\ Raced("set_vertex_properties", "set_vertex_properties")
     /\ CallOf(1).args[1] = CallOf(2).args[1]
     /\ CallOf(1).args[2] = CallOf(2).args[2]
     /\ CallOf(1).args[3] # CallOf(2).args[3]) =>
        \A i \in 1..Len(CallOf(1).args[1]) :
            LET o == CallOf(1).args[1][i]
                n == CallOf(1).args[2]
            IN  \E x \in JsonValues :
                    /\ VertexPropertyManager_get(Holder, o, n) = Some(x)
                    /\ VertexIndexKeysOf(Holder, o, n)
                           = {VertexPropertyManager_key_value_index(o, x, n)}

(***************************************************************************)
(* C28.  One transaction calls create_edge(e) and another delete_edges of  *)
(* e, both ends of e stored, their steps interleaved in any order.  When   *)
(* both are over, e is in all three of edges, edge_ranges and              *)
(* reversed_edge_ranges or in none of them.                                *)
(***************************************************************************)
C28_AllOrNone ==
    (/\ Raced("create_edge", "delete_edges")
     /\ CallOf(2).args[1] = <<CallOf(1).args[1]>>
     /\ VertexManager_exists(Holder, CallOf(1).args[1].outbound_id)
     /\ VertexManager_exists(Holder, CallOf(1).args[1].inbound_id)) =>
        LET e == CallOf(1).args[1]
        IN  \/ InEdges(Holder, e) /\ InRanges(Holder, e) /\ InReversed(Holder, e)
            \/ ~InEdges(Holder, e) /\ ~InRanges(Holder, e) /\ ~InReversed(Holder, e)

(***************************************************************************)
(* C31.  In every state reached by completed calls of one transaction,     *)
(* edge_count (the number of keys of edges) is the number of edges that    *)
(* all_edges yields (the entries of edge_ranges), all_edges yields no edge *)
(* twice, and the edges it yields are the edges with a key in edges.       *)
(***************************************************************************)
C31_CountIsAllEdges ==
    LET listed == all_edges(Holder)
    IN  /\ edge_count(Holder) = Len(listed)
        /\ Cardinality(Elements(listed)) = Len(listed)
        /\ Elements(listed) = {e \in AllEdges : InEdges(Holder, e)}
        /\ DOMAIN edges = {EdgeManager_key(e) : e \in Elements(listed)}

\* three edges were stored and a call took one of them away
C31_Witness ==
    /\ last.op \in {"delete_edges", "delete_vertices"}
    /\ edge_count(pre) = 3
    /\ edge_count(Holder) = 2
    /\ Len(all_edges(Holder)) = 2

(***************************************************************************)
(* C32.  For one MetaDataManager, after each completed add_index,          *)
(* remove_index or sync the names persisted under the "IndexedProperties"  *)
(* prefix are the names of the in-memory set: every name of the set has    *)
(* its key, and the tree holds no key of another name (a removed name      *)
(* among them).  add_index of a name that is in the set changes neither    *)
(* the set nor the tree.                                                   *)
(***************************************************************************)
PersistedNames(h) == MetaDataManager_load(h.metadata)

C32_PersistedIsInMemory ==
    /\ last.op \in {"index_property", "remove_index", "sync"} =>
          /\ PersistedNames(Holder) = indexed_properties
          /\ DOMAIN metadata =
                 {IdentifierComponent(INDEXED_PROPERTIES) \o IdentifierComponent(n) :
                     n \in indexed_properties}
    /\ last.op = "remove_index" => last.args[1] \notin PersistedNames(Holder)
    /\ (last.op = "index_property" /\ last.args[1] \in pre.indexed_properties) =>
          /\ indexed_properties = pre.indexed_properties
          /\ metadata = pre.metadata

\* two names were registered and one of them has been removed
C32_Witness ==
    /\ last.op = "remove_index"
    /\ pre.indexed_properties = PropNames
    /\ PersistedNames(pre) = PropNames
    /\ Cardinality(indexed_properties) = 1
    /\ Cardinality(DOMAIN metadata) = 1

(***************************************************************************)
(* C33.  delete_vertex_properties([(o, n)]) removes the primary entry      *)
(* (o, n) and the value-index entry (n, old value, o) and nothing else:    *)
(* afterwards the point lookup of (o, n) is None, and every other property *)
(* of o, every property of another owner, every vertex, every edge, every  *)
(* edge property and the index registry are as before; when (o, n) was not *)
(* set, nothing changes.  The same for delete_edge_properties([(e, n)]),   *)
(* with the vertex properties among what stays.                            *)
(***************************************************************************)
\* the tree without the key, every other entry as it was
Without(tree, key) == [k \in DOMAIN tree \ {key} |-> tree[k]]

\* the trees of the vertices and the edges, and the index registry
GraphAndRegistry(h) ==
    <<h.db, h.edges, h.edge_ranges, h.reversed_edge_ranges, h.metadata,
      h.indexed_properties>>

C33_DeletePropertyFrame ==
    /\ last.op = "delete_vertex_properties" =>
          LET o == last.args[1][1][1]
              n == last.args[1][1][2]
              old == vertex_property(pre, o, n)
          IN  /\ vertex_property(Holder, o, n) = None
              /\ vertex_properties =
                     Without(pre.vertex_properties, VertexPropertyManager_key(o, n))
              /\ vertex_property_values =
                     IF old = None THEN pre.vertex_property_values
                     ELSE Without(pre.vertex_property_values,
                              VertexPropertyManager_key_value_index(o, old[1], n))
              /\ \A name \in PropNames \ {n} :
                    vertex_property(Holder, o, name) = vertex_property(pre, o, name)
              /\ \A other \in Uuids \ {o} :
                    all_vertex_properties_for_vertex(Holder, other)
                        = all_vertex_properties_for_vertex(pre, other)
              /\ GraphAndRegistry(Holder) = GraphAndRegistry(pre)
              /\ edge_properties = pre.edge_properties
              /\ edge_property_values = pre.edge_property_values
              /\ old = None => Holder = pre
    /\ last.op = "delete_edge_properties" =>
          LET e == last.args[1][1][1]
              n == last.args[1][1][2]
              old == edge_property(pre, e, n)
          IN  /\ edge_property(Holder, e, n) = None
              /\ edge_properties =
                     Without(pre.edge_properties, EdgePropertyManager_key(e, n))
              /\ edge_property_values =
                     IF old = None THEN pre.edge_property_values
                     ELSE Without(pre.edge_property_values,
                              EdgePropertyManager_key_value_index(e, old[1], n))
              /\ \A name \in PropNames \ {n} :
                    edge_property(Holder, e, name) = edge_property(pre, e, name)
              /\ \A other \in AllEdges \ {e} :
                    all_edge_properties_for_edge(Holder, other)
                        = all_edge_properties_for_edge(pre, other)
              /\ GraphAndRegistry(Holder) = GraphAndRegistry(pre)
              /\ vertex_properties = pre.vertex_properties
              /\ vertex_property_values = pre.vertex_property_values
              /\ old = None => Holder = pre

\* a property of a stored vertex deleted while the vertex has another
\* property, an edge is stored with a property, and a name is registered
C33_Witness ==
    /\ last.op = "delete_vertex_properties"
    /\ LET o == last.args[1][1][1]
           n == last.args[1][1][2]
       IN  /\ vertex_property(pre, o, n) # None
           /\ VertexManager_exists(pre, o)
           /\ \E name \in PropNames \ {n} : vertex_property(Holder, o, name) # None
    /\ edge_count(Holder) > 0
    /\ DOMAIN edge_properties # {}
    /\ indexed_properties # {}

(***************************************************************************)
(* C34.  delete_vertices([v]) leaves as they were: every vertex other than *)
(* v, every edge that has v at neither end (in edges, edge_ranges and      *)
(* reversed_edge_ranges), every vertex property of another owner, every    *)
(* edge property of an edge that has v at neither end, and the index       *)
(* registry.                                                               *)
(***************************************************************************)
\* the entries of the tree whose key satisfies keeps
Kept(tree, keeps(_)) == [k \in {x \in DOMAIN tree : keeps(x)} |-> tree[k]]

C34_DeleteVertexFrame ==
    (last.op = "delete_vertices" /\ Len(last.args[1]) = 1) =>
        LET v == last.args[1][1].id
            OtherVertex(k) == read_uuid(k, 1) # v
            OtherEdge(k) == v \notin UuidsOfEdgeKey(k)
            OtherOwner(k) == VertexPropertyManager_read_key_value_index(k) # v
            OtherEdgeIndexed(k) == v \notin UuidsOfEdgeIndexKey(k)
        IN  /\ Kept(db, OtherVertex) = Kept(pre.db, OtherVertex)
            /\ Kept(edges, OtherEdge) = Kept(pre.edges, OtherEdge)
            /\ Kept(edge_ranges, OtherEdge) = Kept(pre.edge_ranges, OtherEdge)
            /\ Kept(reversed_edge_ranges, OtherEdge)
                   = Kept(pre.reversed_edge_ranges, OtherEdge)
            /\ Kept(vertex_properties, OtherVertex)
                   = Kept(pre.vertex_properties, OtherVertex)
            /\ Kept(vertex_property_values, OtherOwner)
                   = Kept(pre.vertex_property_values, OtherOwner)
            /\ Kept(edge_properties, OtherEdge) = Kept(pre.edge_properties, OtherEdge)
            /\ Kept(edge_property_values, OtherEdgeIndexed)
                   = Kept(pre.edge_property_values, OtherEdgeIndexed)
            /\ \A other \in Uuids \ {v} :
                  /\ VertexManager_get(Holder, other) = VertexManager_get(pre, other)
                  /\ all_vertex_properties_for_vertex(Holder, other)
                         = all_vertex_properties_for_vertex(pre, other)
            /\ \A e \in AllEdges :
                  ~Incident(e, v) =>
                      /\ InEdges(Holder, e) <=> InEdges(pre, e)
                      /\ InRanges(Holder, e) <=> InRanges(pre, e)
                      /\ InReversed(Holder, e) <=> InReversed(pre, e)
                      /\ all_edge_properties_for_edge(Holder, e)
                             = all_edge_properties_for_edge(pre, e)
            /\ metadata = pre.metadata
            /\ indexed_properties = pre.indexed_properties

\* vertex 2 deleted with its edge (1, k, 2), while vertex 1, its property,
\* its loop (1, k, 1) and the property of the loop stay, a name registered
C34_Witness ==
    /\ last.op = "delete_vertices"
    /\ IdsOf(last.args[1]) = {2}
    /\ InEdges(pre, E12) /\ ~InEdges(Holder, E12)
    /\ VertexManager_exists(pre, 2)
    /\ VertexManager_exists(Holder, 1)
    /\ InEdges(Holder, E11) /\ InRanges(Holder, E11) /\ InReversed(Holder, E11)
    /\ all_edge_properties_for_edge(Holder, E11) # <<>>
    /\ all_vertex_properties_for_vertex(Holder, 1) # <<>>
    /\ all_vertex_properties_for_vertex(pre, 2) # <<>>
    /\ indexed_properties # {}

(***************************************************************************)
(* C35.  index_property(n) and sync change the registry of indexed names   *)
(* and nothing else: vertex_count, all_vertices, edge_count, all_edges,    *)
(* the point lookup of every property and the properties enumerated for    *)
(* every vertex and every edge are after the call what they were before.   *)
(***************************************************************************)
C35_RegistryOnly ==
    last.op \in {"index_property", "sync"} =>
        /\ vertex_count(Holder) = vertex_count(pre)
        /\ edge_count(Holder) = edge_count(pre)
        /\ all_vertices(Holder) = all_vertices(pre)
        /\ all_edges(Holder) = all_edges(pre)
        /\ \A o \in Uuids :
              /\ all_vertex_properties_for_vertex(Holder, o)
                     = all_vertex_properties_for_vertex(pre, o)
              /\ \A n \in PropNames :
                    vertex_property(Holder, o, n) = vertex_property(pre, o, n)
        /\ \A e \in AllEdges :
              /\ all_edge_properties_for_edge(Holder, e)
                     = all_edge_properties_for_edge(pre, e)
              /\ \A n \in PropNames :
                    edge_property(Holder, e, n) = edge_property(pre, e, n)
        /\ <<db, edges, edge_ranges, reversed_edge_ranges, vertex_properties,
             vertex_property_values, edge_properties, edge_property_values>>
               = <<pre.db, pre.edges, pre.edge_ranges, pre.reversed_edge_ranges,
                   pre.vertex_properties, pre.vertex_property_values,
                   pre.edge_properties, pre.edge_property_values>>

\* a name newly registered over a graph with a vertex, an edge, a vertex
\* property and an edge property of that name
C35_Witness ==
    /\ last.op = "index_property"
    /\ last.args[1] \notin pre.indexed_properties
    /\ last.args[1] \in indexed_properties
    /\ metadata # pre.metadata
    /\ vertex_count(Holder) > 0
    /\ edge_count(Holder) > 0
    /\ \E o \in Uuids : vertex_property(Holder, o, last.args[1]) # None
    /\ \E e \in AllEdges : edge_property(Holder, e, last.args[1]) # None

(***************************************************************************)
(* C36.  create_edge(e) for an edge that is stored, with both its vertices *)
(* stored, returns true again and changes nothing: edge_count, edges,      *)
(* edge_ranges and reversed_edge_ranges are as before, and the properties  *)
(* set on e are kept.  Called twice in a row, the second call leaves the   *)
(* state of the first.                                                     *)
(***************************************************************************)
C36_CreateEdgeAgain ==
    /\ (/\ last.op = "create_edge"
        /\ InEdges(pre, last.args[1])
        /\ VertexManager_exists(pre, last.args[1].outbound_id)
        /\ VertexManager_exists(pre, last.args[1].inbound_id)) =>
          /\ last.ret = TRUE
          /\ edge_count(Holder) = edge_count(pre)
          /\ all_edges(Holder) = all_edges(pre)
          /\ edges = pre.edges
          /\ edge_ranges = pre.edge_ranges
          /\ reversed_edge_ranges = pre.reversed_edge_ranges
          /\ all_edge_properties_for_edge(Holder, last.args[1])
                 = all_edge_properties_for_edge(pre, last.args[1])
          /\ Holder = pre
    /\ (/\ last.op = "create_edge" /\ prev.op = "create_edge"
        /\ prev.args[1] = last.args[1] /\ prev.ret = TRUE) =>
          /\ last.ret = TRUE
          /\ Holder = pre

\* the edge is created again while it carries a property and another edge
\* is stored
C36_Witness ==
    /\ last.op = "create_edge"
    /\ last.ret = TRUE
    /\ InEdges(pre, last.args[1]) /\ InRanges(pre, last.args[1])
    /\ all_edge_properties_for_edge(Holder, last.args[1]) # <<>>
    /\ edge_count(Holder) = 2

(***************************************************************************)
(* C37.  When the read that checks the existence of an input edge fails    *)
(* with a storage error during specific_edges, the caller sees the error:  *)
(* the call returns Err, or the iterator it returns has an Err item.  An   *)
(* edge whose existence could not be read is not left out as if absent.    *)
(***************************************************************************)
C37_ReadErrorSurfaced ==
    (last.op = "specific_edges" /\ pending = <<>> /\ prev.op = "storage_error") =>
        \/ last.ret.result = "Err"
        \/ \E i \in 1..Len(last.ret.items) : last.ret.items[i][1] = "Err"

====
